---- MODULE Spec2Model ----
(***************************************************************************)
(* Model of the Ai-site backend core: SessionManager (state machine and    *)
(* advisory lock), VFS (in-memory file store), VersionManager (version     *)
(* registry), the Orchestrator pipeline (execute / fixErrors) and the      *)
(* session HTTP routes that drive it.                                      *)
(*                                                                         *)
(* JavaScript runs each handler to completion between await points, so an  *)
(* action is the synchronous code from one await (or the request's         *)
(* arrival) to the next await (or the response).                           *)
(***************************************************************************)
EXTENDS Integers, Sequences, FiniteSets, TLC

VARIABLES
    sessions,            \* SessionManager.sessions: session id -> Session
    sessionLocks,        \* SessionManager.sessionLocks: session id -> boolean
    nextSessionId,       \* ids handed out by generateSessionId so far
    files,               \* VFS.files: normalized path -> content
    snapshots,           \* VFS.snapshots: snapshot id -> mapping
    versions,            \* VersionManager.versions: version id -> Version
    sessionVersions,     \* VersionManager.sessionVersions: session id -> ids
    nextVersionId,       \* ids handed out by generateVersionId so far
    conversationHistory, \* ContextManager.conversationHistory: id -> messages
    runs,                \* the requests / pipeline runs started so far
    lockTrail,           \* per id: what the lock/unlock calls made in a row did
    nextSnapshotId,      \* ids handed out by VFS.generateVersionId so far
    taken,               \* per retained snapshot: the mapping when it was taken
    restored,            \* the snapshot the last VFS call restored, if it did
    now,                 \* the clock: what new Date() returns
    held,                \* the Version a caller got from getVersion and keeps
    said,                \* per session: every message addMessage was given
    wire,                \* a Version, its serialized form, and that parsed back
    context,             \* buildContext's arguments and the context it built
    disk,                \* LocalStorageAdapter: the files under baseDir
    saves,               \* LocalStorageAdapter: the save() calls and their steps
    gemini               \* GeminiClient: the generateContent call in progress

vars == <<sessions, sessionLocks, nextSessionId, files, snapshots, versions,
          sessionVersions, nextVersionId, conversationHistory, runs,
          lockTrail, nextSnapshotId, taken, restored, now, held,
          said, wire, context, disk, saves, gemini>>

(***************************************************************************)
(* Bounds of the model.                                                    *)
(***************************************************************************)
MaxSessions == 2
MaxRuns == 2
MaxSnapshots == 2
MaxVersions == 2
MaxClock == 1
MaxMessages == 7
MaxChanges == 4
MaxRetries == 5

(***************************************************************************)
(* Program constants.                                                      *)
(***************************************************************************)
NULL == 0
MAX_FILE_SIZE == 10 * 1024 * 1024
MAX_PATH_LENGTH == 4096
maxHistoryLength == 5

SessionState ==
    {"CREATED", "GENERATING", "BUILDING", "VALIDATING", "READY", "FAILED", "FIXING"}

(***************************************************************************)
(* Maps (JavaScript Map) as functions with a varying domain.               *)
(***************************************************************************)
EmptyMap == <<>>

MapSet(m, k, v) == [x \in (DOMAIN m) \cup {k} |-> IF x = k THEN v ELSE m[x]]

MapDelete(m, k) == [x \in (DOMAIN m) \ {k} |-> m[x]]

(***************************************************************************)
(* SessionManager                                                          *)
(***************************************************************************)
VALID_TRANSITIONS_FailedTerminal(s) ==
    CASE s = "CREATED"    -> {"GENERATING", "FAILED"}
      [] s = "GENERATING" -> {"BUILDING", "FAILED"}
      [] s = "BUILDING"   -> {"VALIDATING", "FAILED"}
      [] s = "VALIDATING" -> {"READY", "FAILED"}
      [] s = "READY"      -> {"GENERATING", "BUILDING", "FIXING"}
      [] s = "FAILED"     -> {}
      [] s = "FIXING"     -> {"BUILDING", "FAILED"}

VALID_TRANSITIONS_NoGuard(s) == SessionState

VALID_TRANSITIONS(s) ==
    CASE s = "CREATED"    -> {"GENERATING", "FAILED"}
      [] s = "GENERATING" -> {"BUILDING", "FAILED"}
      [] s = "BUILDING"   -> {"VALIDATING", "FAILED"}
      [] s = "VALIDATING" -> {"READY", "FAILED"}
      [] s = "READY"      -> {"GENERATING", "BUILDING", "FIXING"}
      [] s = "FAILED"     -> {"FIXING", "GENERATING"}
      [] s = "FIXING"     -> {"BUILDING", "FAILED"}

\* The Session object createSession stores.  expired stands for
\* "expiresAt < new Date()": false at creation, set once the 24 hours pass.
NewSession ==
    [state |-> "CREATED", currentVersion |-> NULL, lastValidVersion |-> NULL,
     expired |-> FALSE]

deleteSession_DropsAllLocks(sm, id) ==
    [sessions |-> MapDelete(sm.sessions, id), locks |-> EmptyMap]

\* deleteSession: removes the session and its lock entry.
deleteSession(sm, id) ==
    [sessions |-> MapDelete(sm.sessions, id), locks |-> MapDelete(sm.locks, id)]

getSession_KeepsLock(sm, id) ==
    IF id \in DOMAIN sm.sessions /\ sm.sessions[id].expired
    THEN [found |-> FALSE,
          sm |-> [sessions |-> MapDelete(sm.sessions, id), locks |-> sm.locks]]
    ELSE [found |-> id \in DOMAIN sm.sessions, sm |-> sm]

\* getSession: the session, or absence; an expired session is evicted.
\* found tells whether a session is returned.
getSession(sm, id) ==
    IF id \in DOMAIN sm.sessions /\ sm.sessions[id].expired
    THEN [found |-> FALSE, sm |-> deleteSession(sm, id)]
    ELSE [found |-> id \in DOMAIN sm.sessions, sm |-> sm]

transitionState_AlwaysCopies(sess, id, newState) ==
    IF id \notin DOMAIN sess
    THEN [err |-> "SessionNotFound", sessions |-> sess]
    ELSE IF newState \notin VALID_TRANSITIONS(sess[id].state)
    THEN [err |-> "InvalidTransition", sessions |-> sess]
    ELSE [err |-> "none",
          sessions |-> [sess EXCEPT ![id] =
              [state |-> newState,
               currentVersion |-> sess[id].currentVersion,
               lastValidVersion |->
                   IF sess[id].currentVersion # NULL
                   THEN sess[id].currentVersion
                   ELSE sess[id].lastValidVersion,
               expired |-> sess[id].expired]]]

\* transitionState: err is "none" when the call returns, else the error thrown.
transitionState(sess, id, newState) ==
    IF id \notin DOMAIN sess
    THEN [err |-> "SessionNotFound", sessions |-> sess]
    ELSE IF newState \notin VALID_TRANSITIONS(sess[id].state)
    THEN [err |-> "InvalidTransition", sessions |-> sess]
    ELSE [err |-> "none",
          sessions |-> [sess EXCEPT ![id] =
              [state |-> newState,
               currentVersion |-> sess[id].currentVersion,
               lastValidVersion |->
                   IF newState = "READY" /\ sess[id].currentVersion # NULL
                   THEN sess[id].currentVersion
                   ELSE sess[id].lastValidVersion,
               expired |-> sess[id].expired]]]

\* setCurrentVersion
setCurrentVersion(sess, id, versionId) ==
    IF id \notin DOMAIN sess
    THEN [err |-> "SessionNotFound", sessions |-> sess]
    ELSE [err |-> "none",
          sessions |-> [sess EXCEPT ![id].currentVersion = versionId]]

\* isLocked: sessionLocks.get(id) ?? false
isLocked(locks, id) == id \in DOMAIN locks /\ locks[id]

lockSession_NoTest(locks, id) == [ok |-> TRUE, locks |-> MapSet(locks, id, TRUE)]

\* lockSession: ok is the value returned.
lockSession(locks, id) ==
    IF isLocked(locks, id)
    THEN [ok |-> FALSE, locks |-> locks]
    ELSE [ok |-> TRUE, locks |-> MapSet(locks, id, TRUE)]

\* unlockSession: sets the entry to false, creating it when absent.
unlockSession(locks, id) == MapSet(locks, id, FALSE)

\* cleanupExpiredSessions: the sweep; deleted is the count returned.
cleanupExpiredSessions(sm) ==
    LET gone == {id \in DOMAIN sm.sessions : sm.sessions[id].expired} IN
    [deleted |-> Cardinality(gone),
     sm |-> [sessions |-> [x \in (DOMAIN sm.sessions) \ gone |-> sm.sessions[x]],
             locks |-> [x \in (DOMAIN sm.locks) \ gone |-> sm.locks[x]]]]

(***************************************************************************)
(* VFS.  A path is a sequence of one-character strings; "NUL" stands for   *)
(* the null byte.  A content is a record of its text and its size in       *)
(* bytes (new Blob([content]).size).                                       *)
(***************************************************************************)
Letters == {"a", "b"}

Contains(p, c) == \E i \in 1..Len(p) : p[i] = c

\* path.includes('..')
ContainsDotDot(p) == \E i \in 1..(Len(p) - 1) : p[i] = "." /\ p[i + 1] = "."

\* /^[a-zA-Z]:/.test(path)
HasDrivePrefix(p) == Len(p) >= 2 /\ p[1] \in Letters /\ p[2] = ":"

\* validatePath: "none" when the path is accepted, else the error thrown.
validatePath(p) ==
    IF Len(p) > MAX_PATH_LENGTH THEN "InvalidPath"
    ELSE IF ContainsDotDot(p) THEN "InvalidPath"
    ELSE IF (Len(p) >= 1 /\ p[1] = "/") \/ HasDrivePrefix(p) THEN "InvalidPath"
    ELSE IF Contains(p, "NUL") THEN "InvalidPath"
    ELSE "none"

\* path.split('/'): the segments between separators, empty ones included.
RECURSIVE SplitSlash(_)
SplitSlash(p) ==
    IF p = <<>> THEN << <<>> >>
    ELSE LET rest == SplitSlash(Tail(p)) IN
         IF Head(p) = "/"
         THEN << <<>> >> \o rest
         ELSE << <<Head(p)>> \o Head(rest) >> \o Tail(rest)

\* segments.join('/')
RECURSIVE JoinSlash(_)
JoinSlash(segs) ==
    IF segs = <<>> THEN <<>>
    ELSE IF Len(segs) = 1 THEN segs[1]
    ELSE segs[1] \o <<"/">> \o JoinSlash(Tail(segs))

NonEmptySegment(seg) == Len(seg) > 0

\* normalizePath: drop the empty segments and rejoin.
normalizePath(p) == JoinSlash(SelectSeq(SplitSlash(p), NonEmptySegment))

write_ValidatesLast(fs, path, content) ==
    IF content.size > MAX_FILE_SIZE
    THEN [err |-> "FileTooLarge", files |-> fs]
    ELSE IF validatePath(path) # "none"
    THEN [err |-> validatePath(path), files |-> MapSet(fs, normalizePath(path), content)]
    ELSE [err |-> "none", files |-> MapSet(fs, normalizePath(path), content)]

write_CapExclusive(fs, path, content) ==
    IF validatePath(path) # "none"
    THEN [err |-> validatePath(path), files |-> fs]
    ELSE IF content.size >= MAX_FILE_SIZE
    THEN [err |-> "FileTooLarge", files |-> fs]
    ELSE [err |-> "none", files |-> MapSet(fs, normalizePath(path), content)]

\* write: err is "none" when the call returns, else the error thrown.
write(fs, path, content) ==
    IF validatePath(path) # "none"
    THEN [err |-> validatePath(path), files |-> fs]
    ELSE IF content.size > MAX_FILE_SIZE
    THEN [err |-> "FileTooLarge", files |-> fs]
    ELSE [err |-> "none", files |-> MapSet(fs, normalizePath(path), content)]

\* getAllFiles: new Map(this.files), a copy.
getAllFiles(fs) == fs

clear_KeepsSnapshots(vfs) == [files |-> EmptyMap, snapshots |-> vfs.snapshots]

\* clear: empties the working mapping and the snapshots.
clear(vfs) == [files |-> EmptyMap, snapshots |-> EmptyMap]

\* read: err is "FileNotFound" when the normalized path is absent.
read(fs, path) ==
    IF normalizePath(path) \in DOMAIN fs
    THEN [err |-> "none", content |-> fs[normalizePath(path)]]
    ELSE [err |-> "FileNotFound", content |-> "undefined"]

\* exists
exists(fs, path) == normalizePath(path) \in DOMAIN fs

\* delete: removes the normalized path; the path is not validated.
delete(fs, path) == MapDelete(fs, normalizePath(path))

\* list: the keys of the working mapping (their order is not modelled).
list(fs) == DOMAIN fs

\* snapshot: vfs is [files, snapshots, nextSnapshotId]; id is the id returned.
\* generateVersionId yields an id never handed out before.
snapshot(vfs) ==
    LET versionId == vfs.nextSnapshotId + 1 IN
    [id |-> versionId,
     vfs |-> [vfs EXCEPT !.snapshots = MapSet(vfs.snapshots, versionId, vfs.files),
                         !.nextSnapshotId = versionId]]

restore_Consuming(vfs, versionId) ==
    IF versionId \notin DOMAIN vfs.snapshots
    THEN [err |-> "SnapshotNotFound", vfs |-> vfs]
    ELSE [err |-> "none",
          vfs |-> [vfs EXCEPT !.files = vfs.snapshots[versionId],
                              !.snapshots = MapDelete(vfs.snapshots, versionId)]]

restore_Merge(vfs, versionId) ==
    IF versionId \notin DOMAIN vfs.snapshots
    THEN [err |-> "SnapshotNotFound", vfs |-> vfs]
    ELSE [err |-> "none",
          vfs |-> [vfs EXCEPT !.files =
              [q \in (DOMAIN vfs.files) \cup (DOMAIN vfs.snapshots[versionId]) |->
                  IF q \in DOMAIN vfs.snapshots[versionId]
                  THEN vfs.snapshots[versionId][q] ELSE vfs.files[q]]]]

\* restore: this.files = new Map(snapshot), the snapshot is kept.
restore(vfs, versionId) ==
    IF versionId \notin DOMAIN vfs.snapshots
    THEN [err |-> "SnapshotNotFound", vfs |-> vfs]
    ELSE [err |-> "none", vfs |-> [vfs EXCEPT !.files = vfs.snapshots[versionId]]]

\* One FileDiff; a field the code leaves out is "undefined".
FileDiff(path, type, oldContent, newContent) ==
    [path |-> path, type |-> type, oldContent |-> oldContent,
     newContent |-> newContent]

DiffOfPath_Truthy(snapshot1, snapshot2, path) ==
    LET in1 == path \in DOMAIN snapshot1 /\ snapshot1[path].data # ""
        in2 == path \in DOMAIN snapshot2 /\ snapshot2[path].data # ""
    IN  IF ~in1 /\ in2
        THEN {FileDiff(path, "added", "undefined", snapshot2[path])}
        ELSE IF in1 /\ ~in2
        THEN {FileDiff(path, "deleted", snapshot1[path], "undefined")}
        ELSE IF in1 /\ in2 /\ snapshot1[path] # snapshot2[path]
        THEN {FileDiff(path, "modified", snapshot1[path], snapshot2[path])}
        ELSE {}

\* The loop body of diff for one path of the two snapshots: the entries
\* pushed for it.
DiffOfPath(snapshot1, snapshot2, path) ==
    LET in1 == path \in DOMAIN snapshot1
        in2 == path \in DOMAIN snapshot2
    IN  IF ~in1 /\ in2
        THEN {FileDiff(path, "added", "undefined", snapshot2[path])}
        ELSE IF in1 /\ ~in2
        THEN {FileDiff(path, "deleted", snapshot1[path], "undefined")}
        ELSE IF snapshot1[path] # snapshot2[path]
        THEN {FileDiff(path, "modified", snapshot1[path], snapshot2[path])}
        ELSE {}

\* diff: the FileDiff entries (their order is not modelled).
diff(vfs, v1, v2) ==
    IF v1 \notin DOMAIN vfs.snapshots \/ v2 \notin DOMAIN vfs.snapshots
    THEN [err |-> "SnapshotNotFound", diffs |-> {}]
    ELSE [err |-> "none",
          diffs |-> UNION {DiffOfPath(vfs.snapshots[v1], vfs.snapshots[v2], path) :
                              path \in (DOMAIN vfs.snapshots[v1])
                                           \cup (DOMAIN vfs.snapshots[v2])}]

(***************************************************************************)
(* VersionManager.  vm is [versions, sessionVersions, nextVersionId, now], *)
(* now being the time new Date() gives during the call.                    *)
(***************************************************************************)
\* createVersion: id is the id of the Version returned.  generateVersionId
\* yields an id never handed out before.
createVersion(vm, sessionId, fileMap, status) ==
    LET versionId == vm.nextVersionId + 1 IN
    [id |-> versionId,
     vm |-> [vm EXCEPT
                !.versions = MapSet(vm.versions, versionId,
                    [id |-> versionId, timestamp |-> vm.now, files |-> fileMap,
                     status |-> status, errorLog |-> "undefined"]),
                !.sessionVersions =
                    MapSet(vm.sessionVersions, sessionId,
                        IF sessionId \in DOMAIN vm.sessionVersions
                        THEN Append(vm.sessionVersions[sessionId], versionId)
                        ELSE <<versionId>>),
                !.nextVersionId = versionId]]

\* undefined where a Version is expected.
NoVersion == [id |-> NULL]

\* getVersion: the record now stored under the id, or undefined.
getVersion(vm, versionId) ==
    IF versionId \in DOMAIN vm.versions THEN vm.versions[versionId]
    ELSE NoVersion

updateVersionStatus_DropsFiles(vm, versionId, status, errorLog) ==
    IF versionId \notin DOMAIN vm.versions
    THEN [err |-> "VersionNotFound", vm |-> vm]
    ELSE [err |-> "none",
          vm |-> [vm EXCEPT !.versions =
              MapSet(vm.versions, versionId,
                  [id |-> versionId, timestamp |-> vm.now,
                   files |-> EmptyMap,
                   status |-> status, errorLog |-> errorLog])]]

updateVersionStatus_InPlace(vm, versionId, status, errorLog) ==
    IF versionId \notin DOMAIN vm.versions
    THEN [err |-> "VersionNotFound", vm |-> vm]
    ELSE LET updatedVersion ==
                 [id |-> versionId, timestamp |-> vm.now,
                  files |-> vm.versions[versionId].files,
                  status |-> status, errorLog |-> errorLog]
         IN  [err |-> "none",
              vm |-> [vm EXCEPT
                  !.versions = MapSet(vm.versions, versionId, updatedVersion),
                  !.held = IF vm.held = vm.versions[versionId]
                           THEN updatedVersion ELSE vm.held]]

\* updateVersionStatus: builds a new record ({...version, status, errorLog,
\* timestamp: new Date()}) and stores it under the same id; what a caller
\* got from getVersion earlier (vm.held, where vm has it) is another object.
updateVersionStatus(vm, versionId, status, errorLog) ==
    IF versionId \notin DOMAIN vm.versions
    THEN [err |-> "VersionNotFound", vm |-> vm]
    ELSE [err |-> "none",
          vm |-> [vm EXCEPT !.versions =
              MapSet(vm.versions, versionId,
                  [id |-> versionId, timestamp |-> vm.now,
                   files |-> vm.versions[versionId].files,
                   status |-> status, errorLog |-> errorLog])]]

\* The for loop of getLastValidVersion, i running from the given index down.
RECURSIVE ScanBackwards(_, _, _)
ScanBackwards(vm, versionIds, i) ==
    IF i < 1 THEN NoVersion
    ELSE LET version == getVersion(vm, versionIds[i]) IN
         IF version # NoVersion /\ version.status = "VALID" THEN version
         ELSE ScanBackwards(vm, versionIds, i - 1)

RECURSIVE ScanForwards(_, _, _)
ScanForwards(vm, versionIds, i) ==
    IF i > Len(versionIds) THEN NoVersion
    ELSE LET version == getVersion(vm, versionIds[i]) IN
         IF version # NoVersion /\ version.status = "VALID" THEN version
         ELSE ScanForwards(vm, versionIds, i + 1)

getLastValidVersion_Forward(vm, sessionId) ==
    IF sessionId \notin DOMAIN vm.sessionVersions THEN NoVersion
    ELSE ScanForwards(vm, vm.sessionVersions[sessionId], 1)

\* getLastValidVersion: the record found, or undefined.
getLastValidVersion(vm, sessionId) ==
    IF sessionId \notin DOMAIN vm.sessionVersions THEN NoVersion
    ELSE LET versionIds == vm.sessionVersions[sessionId] IN
         ScanBackwards(vm, versionIds, Len(versionIds))

\* Array.prototype.sort with (a, b) => a.timestamp - b.timestamp: a stable
\* sort, records with equal timestamps keep their order.
InsertByTimestamp(sorted, v) ==
    LET before == SelectSeq(sorted, LAMBDA a : a.timestamp <= v.timestamp)
        after  == SelectSeq(sorted, LAMBDA a : a.timestamp > v.timestamp)
    IN  before \o <<v>> \o after

RECURSIVE SortByTimestamp(_)
SortByTimestamp(seq) ==
    IF seq = <<>> THEN <<>>
    ELSE InsertByTimestamp(SortByTimestamp(SubSeq(seq, 1, Len(seq) - 1)),
                           seq[Len(seq)])

\* getSessionVersions: map the ids to records, drop the undefined, sort.
getSessionVersions(vm, sessionId) ==
    IF sessionId \notin DOMAIN vm.sessionVersions THEN <<>>
    ELSE LET versionIds == vm.sessionVersions[sessionId]
             mapped == [i \in 1..Len(versionIds) |-> getVersion(vm, versionIds[i])]
         IN  SortByTimestamp(SelectSeq(mapped, LAMBDA v : v # NoVersion))

garbageCollect_KeepsLists(vm, daysToKeep) ==
    LET cutoffDate == vm.now - daysToKeep
        versionsToDelete ==
            {v \in DOMAIN vm.versions : vm.versions[v].timestamp < cutoffDate}
        remaining == [v \in (DOMAIN vm.versions) \ versionsToDelete |->
                         vm.versions[v]]
    IN  [count |-> Cardinality(versionsToDelete),
         vm |-> [vm EXCEPT !.versions = remaining]]

garbageCollect_Inclusive(vm, daysToKeep) ==
    LET cutoffDate == vm.now - daysToKeep
        versionsToDelete ==
            {v \in DOMAIN vm.versions : vm.versions[v].timestamp <= cutoffDate}
        remaining == [v \in (DOMAIN vm.versions) \ versionsToDelete |->
                         vm.versions[v]]
        filtered(s) == SelectSeq(vm.sessionVersions[s],
                                 LAMBDA id : id \in DOMAIN remaining)
    IN  [count |-> Cardinality(versionsToDelete),
         vm |-> [vm EXCEPT
             !.versions = remaining,
             !.sessionVersions =
                 [s \in {t \in DOMAIN vm.sessionVersions : filtered(t) # <<>>}
                     |-> filtered(s)]]]

\* garbageCollect: the clock counts days; cutoffDate is now less daysToKeep
\* days.  count is the number returned.
garbageCollect(vm, daysToKeep) ==
    LET cutoffDate == vm.now - daysToKeep
        versionsToDelete ==
            {v \in DOMAIN vm.versions : vm.versions[v].timestamp < cutoffDate}
        remaining == [v \in (DOMAIN vm.versions) \ versionsToDelete |->
                         vm.versions[v]]
        filtered(s) == SelectSeq(vm.sessionVersions[s],
                                 LAMBDA id : id \in DOMAIN remaining)
    IN  [count |-> Cardinality(versionsToDelete),
         vm |-> [vm EXCEPT
             !.versions = remaining,
             !.sessionVersions =
                 [s \in {t \in DOMAIN vm.sessionVersions : filtered(t) # <<>>}
                     |-> filtered(s)]]]

\* VersionManager.clear: versions.clear() and sessionVersions.clear().
VersionManager_clear(vm) ==
    [vm EXCEPT !.versions = EmptyMap, !.sessionVersions = EmptyMap]


\* Date.prototype.toISOString and new Date(string): a Date is its time
\* value, a number; its string form is the digits of that number.
DigitChars == <<"0", "1", "2", "3", "4", "5", "6", "7", "8", "9">>

RECURSIVE toISOString(_)
toISOString(t) ==
    IF t < 10 THEN <<DigitChars[t + 1]>>
    ELSE Append(toISOString(t \div 10), DigitChars[(t % 10) + 1])

DigitValue(c) == CHOOSE d \in 0..9 : DigitChars[d + 1] = c

RECURSIVE DateOf(_)
DateOf(str) ==
    IF Len(str) = 1 THEN DigitValue(str[1])
    ELSE 10 * DateOf(SubSeq(str, 1, Len(str) - 1)) + DigitValue(str[Len(str)])

\* Object.fromEntries(map): the object's properties, a list of
\* <<key, value>> pairs in the order the object enumerates them.
RECURSIVE fromEntries(_)
fromEntries(map) ==
    IF DOMAIN map = {} THEN <<>>
    ELSE LET key == CHOOSE k \in DOMAIN map : TRUE IN
         <<  <<key, map[key]>>  >> \o fromEntries(MapDelete(map, key))

\* new Map(Object.entries(obj)): a later pair with the same key replaces an
\* earlier one.
RECURSIVE MapOfEntries(_)
MapOfEntries(entries) ==
    IF entries = <<>> THEN EmptyMap
    ELSE MapSet(MapOfEntries(SubSeq(entries, 1, Len(entries) - 1)),
                entries[Len(entries)][1], entries[Len(entries)][2])

serializeVersion_SkipsEmpty(version) ==
    [id |-> version.id,
     timestamp |-> toISOString(version.timestamp),
     files |-> SelectSeq(fromEntries(version.files), LAMBDA e : e[2].size > 0),
     status |-> version.status,
     errorLog |-> version.errorLog]

serializeVersion(version) ==
    [id |-> version.id,
     timestamp |-> toISOString(version.timestamp),
     files |-> fromEntries(version.files),
     status |-> version.status,
     errorLog |-> version.errorLog]

deserializeVersion(data) ==
    [id |-> data.id,
     timestamp |-> DateOf(data.timestamp),
     files |-> MapOfEntries(data.files),
     status |-> data.status,
     errorLog |-> data.errorLog]


(***************************************************************************)
(* ContextManager.addMessage: append, then drop the oldest beyond 5.       *)
(***************************************************************************)
addMessage_DropsNewest(hist, sessionId, message) ==
    LET old == IF sessionId \in DOMAIN hist THEN hist[sessionId] ELSE <<>>
        new == Append(old, message)
    IN  MapSet(hist, sessionId,
               IF Len(new) > maxHistoryLength
               THEN SubSeq(new, 1, Len(new) - 1) ELSE new)

\* message is what is pushed: the role alone where the pipeline calls, the
\* role and the content where the ContextManager is called directly.
addMessage(hist, sessionId, message) ==
    LET old == IF sessionId \in DOMAIN hist THEN hist[sessionId] ELSE <<>>
        new == Append(old, message)
    IN  MapSet(hist, sessionId,
               IF Len(new) > maxHistoryLength THEN Tail(new) ELSE new)

(***************************************************************************)
(* ContextManager.buildContext.                                            *)
(***************************************************************************)
\* String.prototype.includes and a regular expression ending in $.
Includes(p, sub) ==
    \E i \in 1..(Len(p) - Len(sub) + 1) : SubSeq(p, i, i + Len(sub) - 1) = sub

EndsWith(p, sub) ==
    /\ Len(p) >= Len(sub)
    /\ SubSeq(p, Len(p) - Len(sub) + 1, Len(p)) = sub

getFileImportanceScore(p) ==
    (IF \/ Includes(p, <<"i", "n", "d", "e", "x", ".">>)
        \/ Includes(p, <<"m", "a", "i", "n", ".">>)
        \/ Includes(p, <<"a", "p", "p", ".">>)
     THEN 10 ELSE 0)
    + (IF \/ Includes(p, <<"p", "a", "c", "k", "a", "g", "e", ".", "j", "s", "o", "n">>)
          \/ Includes(p, <<"t", "s", "c", "o", "n", "f", "i", "g", ".", "j", "s", "o", "n">>)
          \/ Includes(p, <<"v", "i", "t", "e", ".", "c", "o", "n", "f", "i", "g">>)
       THEN 8 ELSE 0)
    + (IF \/ EndsWith(p, <<".", "t", "s", "x">>)
          \/ EndsWith(p, <<".", "j", "s", "x">>)
       THEN 5 ELSE 0)
    + (IF EndsWith(p, <<".", "t", "s">>) THEN 3 ELSE 0)
    - Cardinality({i \in 1..Len(p) : p[i] = "/"})

\* unchanged.sort((a, b) => score(b) - score(a)): stable, highest first.
InsertByScore(sorted, f) ==
    LET before == SelectSeq(sorted, LAMBDA a :
                      getFileImportanceScore(a) >= getFileImportanceScore(f))
        after  == SelectSeq(sorted, LAMBDA a :
                      getFileImportanceScore(a) < getFileImportanceScore(f))
    IN  before \o <<f>> \o after

RECURSIVE SortByScore(_)
SortByScore(seq) ==
    IF seq = <<>> THEN <<>>
    ELSE InsertByScore(SortByScore(SubSeq(seq, 1, Len(seq) - 1)), seq[Len(seq)])

\* prioritizeFiles: recentChanges is a list of FileDiffs.
prioritizeFiles(fileList, recentChanges) ==
    LET changedPaths == {recentChanges[i].path : i \in 1..Len(recentChanges)}
        changed == SelectSeq(fileList, LAMBDA f : f \in changedPaths)
        unchanged == SelectSeq(fileList, LAMBDA f : f \notin changedPaths)
    IN  changed \o SortByScore(unchanged)

\* buildContext without dependencies: existingFiles is
\* Array.from(currentVersion.files.keys()), the paths in the Map's order,
\* or the empty list when currentVersion is null.
buildContext(hist, sessionId, existingFiles, recentChanges) ==
    LET history == IF sessionId \in DOMAIN hist THEN hist[sessionId] ELSE <<>>
        recentChangesList == SubSeq(recentChanges, 1,
            IF Len(recentChanges) < 3 THEN Len(recentChanges) ELSE 3)
    IN  [existingFiles |-> prioritizeFiles(existingFiles, recentChangesList),
         recentChanges |-> recentChangesList,
         conversationHistory |->
             SubSeq(history,
                    IF Len(history) > maxHistoryLength
                    THEN Len(history) - maxHistoryLength + 1 ELSE 1,
                    Len(history)),
         dependencies |-> <<>>]


(***************************************************************************)
(* Preview routes.  A reply is its status code and, for a redirect, the    *)
(* session id and the version id of the location /preview/<sid>/<vid>.     *)
(***************************************************************************)
\* The version id 'latest' the route falls back to.
Latest == -1

NoLocation == [sessionId |-> NULL, versionId |-> NULL]

PreviewLatest_PrefersCurrent(sm, sessionId) ==
    LET g == getSession(sm, sessionId) IN
    IF ~g.found
    THEN [status |-> 404, location |-> NoLocation, sm |-> g.sm]
    ELSE LET session == g.sm.sessions[sessionId] IN
         IF session.lastValidVersion = NULL /\ session.state # "READY"
         THEN [status |-> 202, location |-> NoLocation, sm |-> g.sm]
         ELSE [status |-> 302,
               location |->
                   [sessionId |-> sessionId,
                    versionId |->
                        IF session.currentVersion # NULL
                        THEN session.currentVersion
                        ELSE IF session.lastValidVersion # NULL
                        THEN session.lastValidVersion
                        ELSE Latest],
               sm |-> g.sm]

\* GET /preview/:sessionId
PreviewLatest(sm, sessionId) ==
    LET g == getSession(sm, sessionId) IN
    IF ~g.found
    THEN [status |-> 404, location |-> NoLocation, sm |-> g.sm]
    ELSE LET session == g.sm.sessions[sessionId] IN
         IF session.lastValidVersion = NULL /\ session.state # "READY"
         THEN [status |-> 202, location |-> NoLocation, sm |-> g.sm]
         ELSE [status |-> 302,
               location |->
                   [sessionId |-> sessionId,
                    versionId |->
                        IF session.lastValidVersion # NULL
                        THEN session.lastValidVersion
                        ELSE IF session.currentVersion # NULL
                        THEN session.currentVersion
                        ELSE Latest],
               sm |-> g.sm]


(***************************************************************************)
(* Orchestrator.  The synchronous code between two awaits is a list of     *)
(* calls, run in order until one throws.  st carries the components'       *)
(* state, the locals of the run (version: the Version minted, copy: the    *)
(* mapping getAllFiles returned), the error thrown (err) and the calls     *)
(* made so far (trail).                                                    *)
(***************************************************************************)
Call(op, arg) == [op |-> op, arg |-> arg]

\* for (const [path, content] of Object.entries(fileSet)) this.vfs.write(...)
RECURSIVE WriteAll(_, _)
WriteAll(fs, entries) ==
    IF entries = <<>> THEN [err |-> "none", files |-> fs]
    ELSE LET w == write(fs, entries[1][1], entries[1][2]) IN
         IF w.err # "none" THEN w ELSE WriteAll(w.files, Tail(entries))

VmOf(st) ==
    [versions |-> st.versions, sessionVersions |-> st.sessionVersions,
     nextVersionId |-> st.nextVersionId, now |-> now]

WithVm(st, vm) ==
    [st EXCEPT !.versions = vm.versions,
               !.sessionVersions = vm.sessionVersions,
               !.nextVersionId = vm.nextVersionId]

\* One call of the pipeline on behalf of session sid with the AI's fileSet.
Do(st, c, sid, fileSet) ==
    CASE c.op = "transitionState" ->
            LET t == transitionState(st.sessions, sid, c.arg) IN
            [st EXCEPT !.sessions = t.sessions, !.err = t.err]
      [] c.op = "addMessage" ->
            [st EXCEPT !.hist = addMessage(st.hist, sid, c.arg)]
      [] c.op = "clear" ->
            [st EXCEPT !.files = clear(st).files, !.snapshots = clear(st).snapshots]
      [] c.op = "write" ->
            LET w == WriteAll(st.files, fileSet) IN
            [st EXCEPT !.files = w.files, !.err = w.err]
      [] c.op = "getAllFiles" ->
            [st EXCEPT !.copy = getAllFiles(st.files)]
      [] c.op = "createVersion" ->
            LET v == createVersion(VmOf(st), sid, st.copy, c.arg) IN
            [WithVm(st, v.vm) EXCEPT !.version = v.id]
      [] c.op = "setCurrentVersion" ->
            LET t == setCurrentVersion(st.sessions, sid, st.version) IN
            [st EXCEPT !.sessions = t.sessions, !.err = t.err]
      [] c.op = "updateVersionStatus" ->
            LET u == updateVersionStatus(VmOf(st), st.version, c.arg, "undefined") IN
            [WithVm(st, u.vm) EXCEPT !.err = u.err]
      [] c.op = "getVersion" ->
            \* fixErrors: if (!version) throw new Error('Version not found')
            [st EXCEPT !.err =
                IF sid \in DOMAIN st.sessions
                   /\ st.sessions[sid].currentVersion \in DOMAIN st.versions
                THEN "none" ELSE "VersionNotFound"]

\* An error is thrown: it is noted in the trail.
Throw(st, err) == [st EXCEPT !.err = err, !.trail = Append(@, Call("throw", err))]

\* One call, noted in the trail, and its throw when it throws.
Step(st, c, sid, fileSet) ==
    LET n == Do([st EXCEPT !.trail = Append(@, c)], c, sid, fileSet) IN
    IF n.err = "none" THEN n ELSE Throw(n, n.err)

RunCalls_NoStop(st, prog, sid, fileSet) ==
    LET RECURSIVE Go(_, _)
        Go(s, rest) ==
            IF rest = <<>> THEN s
            ELSE LET n == Step([s EXCEPT !.err = "none"], Head(rest), sid, fileSet)
                 IN  Go([n EXCEPT !.err = IF s.err # "none" THEN s.err ELSE n.err],
                        Tail(rest))
    IN  Go(st, prog)

\* The calls of prog in order; the first that throws ends the block.
RunCalls(st, prog, sid, fileSet) ==
    LET RECURSIVE Go(_, _)
        Go(s, rest) ==
            IF rest = <<>> \/ s.err # "none" THEN s
            ELSE Go(Step(s, Head(rest), sid, fileSet), Tail(rest))
    IN  Go(st, prog)

\* execute, up to the await of aiGateway.plan.  getVersion, buildContext,
\* extractDependencies and compressContext read only and do not throw.
ExecuteStart ==
    << Call("addMessage", "user"),
       Call("transitionState", "GENERATING") >>

\* execute, from the plan to the await of aiGateway.generate.
ExecutePlanned == << Call("addMessage", "assistant") >>

ExecuteCommit_NoClear ==
    << Call("transitionState", "BUILDING"),
       Call("write", ""),
       Call("getAllFiles", ""),
       Call("createVersion", "BUILDING"),
       Call("setCurrentVersion", ""),
       Call("transitionState", "VALIDATING"),
       Call("updateVersionStatus", "VALID"),
       Call("transitionState", "READY"),
       Call("addMessage", "assistant") >>

ExecuteCommit_LateSetCurrent ==
    << Call("transitionState", "BUILDING"),
       Call("clear", ""),
       Call("write", ""),
       Call("getAllFiles", ""),
       Call("createVersion", "BUILDING"),
       Call("transitionState", "VALIDATING"),
       Call("updateVersionStatus", "VALID"),
       Call("transitionState", "READY"),
       Call("setCurrentVersion", ""),
       Call("addMessage", "assistant") >>

\* execute, from the generated file set to the return.
ExecuteCommit ==
    << Call("transitionState", "BUILDING"),
       Call("clear", ""),
       Call("write", ""),
       Call("getAllFiles", ""),
       Call("createVersion", "BUILDING"),
       Call("setCurrentVersion", ""),
       Call("transitionState", "VALIDATING"),
       Call("updateVersionStatus", "VALID"),
       Call("transitionState", "READY"),
       Call("addMessage", "assistant") >>

\* fixErrors, up to the await of aiGateway.fix.
FixStart ==
    << Call("transitionState", "FIXING"),
       Call("getVersion", "") >>

\* fixErrors, from the fixed file set to the return.
FixCommit ==
    << Call("clear", ""),
       Call("write", ""),
       Call("getAllFiles", ""),
       Call("createVersion", "BUILDING"),
       Call("setCurrentVersion", ""),
       Call("transitionState", "BUILDING"),
       Call("updateVersionStatus", "VALID"),
       Call("transitionState", "READY") >>

Catch_ResetsLastValid(st, sid) ==
    LET t == transitionState(st.sessions, sid, "FAILED") IN
    [st EXCEPT !.sessions =
                   IF t.err = "none"
                   THEN [t.sessions EXCEPT ![sid].lastValidVersion = NULL]
                   ELSE t.sessions,
               !.err = IF t.err = "none" THEN st.err ELSE t.err,
               !.original = (t.err = "none"),
               !.trail = @ \o << Call("transitionState", "FAILED") >>
                           \o (IF t.err = "none" THEN <<>>
                               ELSE << Call("throw", t.err) >>)]

Catch_ClearsFiles(st, sid) ==
    LET t == transitionState(st.sessions, sid, "FAILED") IN
    [st EXCEPT !.sessions = t.sessions,
               !.files = EmptyMap,
               !.err = IF t.err = "none" THEN st.err ELSE t.err,
               !.original = (t.err = "none"),
               !.trail = @ \o << Call("transitionState", "FAILED") >>
                           \o (IF t.err = "none" THEN <<>>
                               ELSE << Call("throw", t.err) >>)]

Catch_OnlyRethrows(st, sid) ==
    [st EXCEPT !.original = TRUE]

\* catch (error) { transitionState(sessionId, FAILED, message); throw error }
\* st.err is the error caught; original tells whether the error that leaves
\* is that error (it is not when transitionState throws in its turn).
Catch(st, sid) ==
    LET t == transitionState(st.sessions, sid, "FAILED") IN
    [st EXCEPT !.sessions = t.sessions,
               !.err = IF t.err = "none" THEN st.err ELSE t.err,
               !.original = (t.err = "none"),
               !.trail = @ \o << Call("transitionState", "FAILED") >>
                           \o (IF t.err = "none" THEN <<>>
                               ELSE << Call("throw", t.err) >>)]

\* try { <prog> } catch { ... }: the block, and the handler when it throws.
Try(st, prog, sid, fileSet) ==
    LET s == RunCalls(st, prog, sid, fileSet) IN
    IF s.err = "none" THEN s ELSE Catch(s, sid)

(***************************************************************************)
(* Requests and pipeline runs.  A run is one call of Orchestrator.execute  *)
(* or fixErrors, made by the prompt route (kind "prompt", under the lock)  *)
(* or directly by a caller of the Orchestrator ("execute", "fix").         *)
(*   pc       where the run waits: "plan", "generate", "fix", or "done"    *)
(*   result   "pending", "resolved", "rejected"; "none": never called      *)
(*   resp     the route's HTTP status, "none" while there is none          *)
(*   entered  the run passed the session lookup that precedes the try      *)
(*   *Before  the session's fields when the run was started                *)
(***************************************************************************)
ContentX == [data |-> "x", size |-> 1]
ContentY == [data |-> "y", size |-> 1]

PathA == << "a" >>
PathB == << "b" >>
PathASlash == << "a", "/" >>
PathAbsolute == << "/", "a" >>

\* What aiGateway.generate / fix may resolve with: Object.entries(fileSet).
\* One file set of a normalized path; one with a path that normalizes to an
\* earlier one; one with a path validatePath rejects.
GenFileSets ==
    { << <<PathA, ContentX>> >>,
      << <<PathA, ContentX>>, <<PathB, ContentX>>, <<PathASlash, ContentY>> >>,
      << <<PathB, ContentY>>, <<PathAbsolute, ContentX>> >> }

NewRun(kind, sid) ==
    [kind |-> kind, sid |-> sid, pc |-> "done", result |-> "none",
     resp |-> "none", err |-> "none", original |-> TRUE, entered |-> FALSE,
     locked |-> FALSE, version |-> NULL,
     stateBefore |-> IF sid \in DOMAIN sessions THEN sessions[sid].state ELSE "none",
     currentBefore |->
         IF sid \in DOMAIN sessions THEN sessions[sid].currentVersion ELSE NULL,
     lastValidBefore |->
         IF sid \in DOMAIN sessions THEN sessions[sid].lastValidVersion ELSE NULL,
     generated |-> FALSE, fileSet |-> << >>, trail |-> << >>]

\* The components' state as a run sees it, with the run's locals.
StateOf(run) ==
    [sessions |-> sessions, locks |-> sessionLocks, files |-> files,
     snapshots |-> snapshots, versions |-> versions,
     sessionVersions |-> sessionVersions, nextVersionId |-> nextVersionId,
     hist |-> conversationHistory, err |-> "none", original |-> TRUE,
     version |-> run.version, copy |-> EmptyMap, trail |-> run.trail]

Install(st) ==
    /\ sessions' = st.sessions
    /\ sessionLocks' = st.locks
    /\ files' = st.files
    /\ snapshots' = st.snapshots
    /\ versions' = st.versions
    /\ sessionVersions' = st.sessionVersions
    /\ nextVersionId' = st.nextVersionId
    /\ conversationHistory' = st.hist

RouteFinally_OnSuccessOnly(st, sid) ==
    IF st.err = "none" THEN [st EXCEPT !.locks = unlockSession(st.locks, sid)] ELSE st

\* The prompt route's reply to a run that resolved reads
\* sessionManager.getSession(id)?.state, which evicts an expired session.
RouteReply(st, sid) ==
    LET g == getSession([sessions |-> st.sessions, locks |-> st.locks], sid) IN
    [st EXCEPT !.sessions = g.sm.sessions, !.locks = g.sm.locks]

\* The prompt route's finally { sessionManager.unlockSession(id) }.
RouteFinally(st, sid) == [st EXCEPT !.locks = unlockSession(st.locks, sid)]

\* The run after a block of synchronous code left the state st: it waits at
\* next, or it is over (the block threw, or next is "done") and the prompt
\* route answers 200 or 500 and unlocks.
After(run, st, next) ==
    LET over == st.err # "none" \/ next = "done"
        r1 == [run EXCEPT !.pc = IF over THEN "done" ELSE next,
                          !.result = IF ~over THEN "pending"
                                     ELSE IF st.err = "none" THEN "resolved"
                                     ELSE "rejected",
                          !.resp = IF over /\ run.kind = "prompt"
                                   THEN (IF st.err = "none" THEN "200" ELSE "500")
                                   ELSE run.resp,
                          !.err = st.err,
                          !.original = st.original,
                          !.version = st.version,
                          !.trail = st.trail]
    IN  [run |-> r1,
         st |-> IF over /\ run.kind = "prompt"
                THEN RouteFinally(IF st.err = "none" THEN RouteReply(st, run.sid)
                                  ELSE st, run.sid)
                ELSE st]

\* Orchestrator.execute from its call to its first await.
ExecuteBegin(run, st) ==
    LET g == getSession([sessions |-> st.sessions, locks |-> st.locks], run.sid)
        s0 == [st EXCEPT !.sessions = g.sm.sessions, !.locks = g.sm.locks]
    IN  IF ~g.found
        THEN After(run, Throw(s0, "SessionNotFound"), "done")
        ELSE After([run EXCEPT !.entered = TRUE],
                   Try(s0, ExecuteStart, run.sid, << >>), "plan")

\* Orchestrator.fixErrors from its call to its first await.
FixBegin(run, st) ==
    LET g == getSession([sessions |-> st.sessions, locks |-> st.locks], run.sid)
        s0 == [st EXCEPT !.sessions = g.sm.sessions, !.locks = g.sm.locks]
    IN  IF ~g.found \/ s0.sessions[run.sid].currentVersion = NULL
        THEN After(run, Throw(s0, "NoCurrentVersion"), "done")
        ELSE After([run EXCEPT !.entered = TRUE],
                   Try(s0, FixStart, run.sid, << >>), "fix")

\* No Version is being serialized.
NoWire == [pc |-> "none"]

\* No buildContext call has been made.
NoContext == [pc |-> "none"]

\* No file under baseDir.
EmptyDisk == [versionFiles |-> {}, index |-> EmptyMap]

\* No generateContent call is in progress.
NoCall == [pc |-> "none"]

Init ==
    /\ sessions = EmptyMap
    /\ sessionLocks = EmptyMap
    /\ nextSessionId = 0
    /\ files = EmptyMap
    /\ snapshots = EmptyMap
    /\ versions = EmptyMap
    /\ sessionVersions = EmptyMap
    /\ nextVersionId = 0
    /\ conversationHistory = EmptyMap
    /\ runs = << >>
    /\ lockTrail = EmptyMap
    /\ nextSnapshotId = 0
    /\ taken = EmptyMap
    /\ restored = NULL
    /\ now = 0
    /\ held = NoVersion
    /\ said = EmptyMap
    /\ wire = NoWire
    /\ context = NoContext
    /\ disk = EmptyDisk
    /\ saves = EmptyMap
    /\ gemini = NoCall

\* POST /api/v1/sessions
CreateSessionRequest ==
    /\ nextSessionId < MaxSessions
    /\ nextSessionId' = nextSessionId + 1
    /\ sessions' = MapSet(sessions, nextSessionId + 1, NewSession)
    /\ sessionLocks' = MapSet(sessionLocks, nextSessionId + 1, FALSE)
    /\ UNCHANGED <<files, snapshots, versions, sessionVersions, nextVersionId,
                   conversationHistory, runs, lockTrail>>
    /\ UNCHANGED <<nextSnapshotId, taken, restored, now, held>>
    /\ UNCHANGED <<said, wire, context, disk, saves, gemini>>

\* GET /api/v1/sessions/:id and GET /preview/:sessionId: getSession(id).
\* (A request that finds no session, or a live one, changes nothing.)
GetSessionRequest(id) ==
    LET g == getSession([sessions |-> sessions, locks |-> sessionLocks], id) IN
    /\ id \in DOMAIN sessions /\ ~g.found
    /\ sessions' = g.sm.sessions
    /\ sessionLocks' = g.sm.locks
    /\ UNCHANGED <<nextSessionId, files, snapshots, versions, sessionVersions,
                   nextVersionId, conversationHistory, runs, lockTrail>>
    /\ UNCHANGED <<nextSnapshotId, taken, restored, now, held>>
    /\ UNCHANGED <<said, wire, context, disk, saves, gemini>>

\* DELETE /api/v1/sessions/:id
DeleteSessionRequest(id) ==
    LET g == getSession([sessions |-> sessions, locks |-> sessionLocks], id)
        d == IF g.found THEN deleteSession(g.sm, id) ELSE g.sm
    IN
    /\ id \in DOMAIN sessions
    /\ sessions' = d.sessions
    /\ sessionLocks' = d.locks
    /\ UNCHANGED <<nextSessionId, files, snapshots, versions, sessionVersions,
                   nextVersionId, conversationHistory, runs, lockTrail>>
    /\ UNCHANGED <<nextSnapshotId, taken, restored, now, held>>
    /\ UNCHANGED <<said, wire, context, disk, saves, gemini>>

\* The clock passes the session's expiresAt (its creation time + 24 hours):
\* sessions expire in the order of their creation.
Expire(id) ==
    /\ id \in DOMAIN sessions
    /\ ~sessions[id].expired
    /\ \A j \in DOMAIN sessions : j < id => sessions[j].expired
    /\ sessions' = [sessions EXCEPT ![id].expired = TRUE]
    /\ UNCHANGED <<sessionLocks, nextSessionId, files, snapshots, versions,
                   sessionVersions, nextVersionId, conversationHistory, runs,
                   lockTrail>>
    /\ UNCHANGED <<nextSnapshotId, taken, restored, now, held>>
    /\ UNCHANGED <<said, wire, context, disk, saves, gemini>>

\* setInterval(() => sessionManager.cleanupExpiredSessions(), 1 hour)
CleanupTimer ==
    LET c == cleanupExpiredSessions([sessions |-> sessions, locks |-> sessionLocks]) IN
    /\ c.deleted > 0
    /\ sessions' = c.sm.sessions
    /\ sessionLocks' = c.sm.locks
    /\ UNCHANGED <<nextSessionId, files, snapshots, versions, sessionVersions,
                   nextVersionId, conversationHistory, runs, lockTrail>>
    /\ UNCHANGED <<nextSnapshotId, taken, restored, now, held>>
    /\ UNCHANGED <<said, wire, context, disk, saves, gemini>>

PromptReply_NoBusy(sm, id, promptOk) ==
    IF ~promptOk THEN "400"
    ELSE IF ~getSession(sm, id).found THEN "404"
    ELSE "admitted"

\* POST /api/v1/sessions/:id/prompt: what the route answers before it calls
\* the orchestrator ("400", "404", "409"), or "admitted" when it goes on to
\* lock the session and call execute.
PromptReply(sm, id, promptOk) ==
    IF ~promptOk THEN "400"
    ELSE IF ~getSession(sm, id).found THEN "404"
    ELSE IF isLocked(getSession(sm, id).sm.locks, id) THEN "409"
    ELSE "admitted"

PromptRejected_RunsFinally(sm, id, promptOk) ==
    IF ~promptOk THEN sm
    ELSE LET g == getSession(sm, id) IN
         IF ~g.found THEN g.sm
         ELSE [sessions |-> g.sm.sessions, locks |-> unlockSession(g.sm.locks, id)]

\* POST /api/v1/sessions/:id/prompt answered 400, 404 or 409: the
\* SessionManager as the request leaves it.  The three returns precede the
\* try block, so its finally does not run.
PromptRejected(sm, id, promptOk) ==
    IF ~promptOk THEN sm ELSE getSession(sm, id).sm

\* POST /api/v1/sessions/:id/prompt, from the request's arrival to the first
\* await inside orchestrator.execute or, when it does not get that far, to
\* the reply.  A request answered 400 or 409, or 404 for a session that is
\* not stored, changes nothing; a 404 for an expired session evicts it.
PromptRequest(id, promptOk) ==
    LET run == NewRun("prompt", id)
        st == StateOf(run)
        sm == [sessions |-> sessions, locks |-> sessionLocks]
        reply == PromptReply(sm, id, promptOk)
        g == getSession(sm, id)
        s0 == [st EXCEPT !.sessions = g.sm.sessions, !.locks = g.sm.locks]
        l == lockSession(s0.locks, id)
        a == ExecuteBegin([run EXCEPT !.locked = l.ok], [s0 EXCEPT !.locks = l.locks])
    IN
    /\ reply = "admitted" \/ (reply = "404" /\ id \in DOMAIN sessions)
    /\ IF reply = "admitted"
       THEN /\ Len(runs) < MaxRuns
            /\ runs' = Append(runs, a.run)
            /\ Install(a.st)
       ELSE /\ runs' = runs
            /\ Install(s0)
    /\ UNCHANGED <<nextSessionId, lockTrail>>
    /\ UNCHANGED <<nextSnapshotId, taken, restored, now, held>>
    /\ UNCHANGED <<said, wire, context, disk, saves, gemini>>

\* aiGateway.plan settles: the run goes on to generate, or fails.
PlanSettled(r, ok) ==
    LET run == runs[r]
        st == StateOf(run)
        a == IF ok
             THEN After(run, Try(st, ExecutePlanned, run.sid, << >>), "generate")
             ELSE After(run, Catch(Throw(st, "AIError"), run.sid), "done")
    IN
    /\ run.pc = "plan"
    /\ runs' = [runs EXCEPT ![r] = a.run]
    /\ Install(a.st)
    /\ UNCHANGED <<nextSessionId, lockTrail>>
    /\ UNCHANGED <<nextSnapshotId, taken, restored, now, held>>
    /\ UNCHANGED <<said, wire, context, disk, saves, gemini>>

\* aiGateway.generate settles: the run commits the file set, or fails.
GenerateSettled(r, ok, fileSet) ==
    LET run == runs[r]
        st == StateOf(run)
        a == IF ok
             THEN After([run EXCEPT !.generated = TRUE, !.fileSet = fileSet],
                        Try(st, ExecuteCommit, run.sid, fileSet), "done")
             ELSE After(run, Catch(Throw(st, "AIError"), run.sid), "done")
    IN
    /\ run.pc = "generate"
    /\ runs' = [runs EXCEPT ![r] = a.run]
    /\ Install(a.st)
    /\ UNCHANGED <<nextSessionId, lockTrail>>
    /\ UNCHANGED <<nextSnapshotId, taken, restored, now, held>>
    /\ UNCHANGED <<said, wire, context, disk, saves, gemini>>

Next ==
    \/ CreateSessionRequest
    \/ \E id \in 1..nextSessionId : GetSessionRequest(id)
    \/ \E id \in 1..nextSessionId : DeleteSessionRequest(id)
    \/ \E id \in 1..nextSessionId : Expire(id)
    \/ CleanupTimer
    \/ \E id \in 1..nextSessionId : PromptRequest(id, TRUE)
    \/ \E r \in 1..Len(runs), ok \in BOOLEAN : PlanSettled(r, ok)
    \/ \E r \in 1..Len(runs), fileSet \in GenFileSets :
           \/ GenerateSettled(r, TRUE, fileSet)
           \/ GenerateSettled(r, FALSE, << >>)

\* A caller of the Orchestrator calls execute(id, prompt) itself.
ExecuteCall(id) ==
    LET run == NewRun("execute", id)
        a == ExecuteBegin(run, StateOf(run))
    IN
    /\ Len(runs) < MaxRuns
    /\ runs' = Append(runs, a.run)
    /\ Install(a.st)
    /\ UNCHANGED <<nextSessionId, lockTrail>>
    /\ UNCHANGED <<nextSnapshotId, taken, restored, now, held>>
    /\ UNCHANGED <<said, wire, context, disk, saves, gemini>>

\* A caller of the Orchestrator calls fixErrors(id, error).
FixErrorsCall(id) ==
    LET run == NewRun("fix", id)
        a == FixBegin(run, StateOf(run))
    IN
    /\ Len(runs) < MaxRuns
    /\ runs' = Append(runs, a.run)
    /\ Install(a.st)
    /\ UNCHANGED <<nextSessionId, lockTrail>>
    /\ UNCHANGED <<nextSnapshotId, taken, restored, now, held>>
    /\ UNCHANGED <<said, wire, context, disk, saves, gemini>>

\* aiGateway.fix settles: the run commits the fixed files, or fails.
FixSettled(r, ok, fileSet) ==
    LET run == runs[r]
        st == StateOf(run)
        a == IF ok
             THEN After([run EXCEPT !.generated = TRUE, !.fileSet = fileSet],
                        Try(st, FixCommit, run.sid, fileSet), "done")
             ELSE After(run, Catch(Throw(st, "AIError"), run.sid), "done")
    IN
    /\ run.pc = "fix"
    /\ runs' = [runs EXCEPT ![r] = a.run]
    /\ Install(a.st)
    /\ UNCHANGED <<nextSessionId, lockTrail>>
    /\ UNCHANGED <<nextSnapshotId, taken, restored, now, held>>
    /\ UNCHANGED <<said, wire, context, disk, saves, gemini>>

NextOrch ==
    \/ CreateSessionRequest
    \/ \E id \in 1..nextSessionId : DeleteSessionRequest(id)
    \/ \E id \in 1..nextSessionId : ExecuteCall(id)
    \/ \E id \in 1..nextSessionId : FixErrorsCall(id)
    \/ \E r \in 1..Len(runs), ok \in BOOLEAN : PlanSettled(r, ok)
    \/ \E r \in 1..Len(runs), fileSet \in GenFileSets :
           \/ GenerateSettled(r, TRUE, fileSet)
           \/ GenerateSettled(r, FALSE, << >>)
    \/ \E r \in 1..Len(runs), fileSet \in GenFileSets :
           \/ FixSettled(r, TRUE, fileSet)
           \/ FixSettled(r, FALSE, << >>)

(***************************************************************************)
(* The SessionManager called directly, one method per action.              *)
(***************************************************************************)
\* Version ids a caller may hand to setCurrentVersion, which checks nothing.
SomeVersionIds == {1, 2}

SM_createSession ==
    /\ CreateSessionRequest

SM_transitionState(id, newState) ==
    /\ sessions' = transitionState(sessions, id, newState).sessions
    /\ UNCHANGED <<sessionLocks, nextSessionId, files, snapshots, versions,
                   sessionVersions, nextVersionId, conversationHistory, runs,
                   lockTrail>>
    /\ UNCHANGED <<nextSnapshotId, taken, restored, now, held>>
    /\ UNCHANGED <<said, wire, context, disk, saves, gemini>>

SM_setCurrentVersion(id, versionId) ==
    /\ sessions' = setCurrentVersion(sessions, id, versionId).sessions
    /\ UNCHANGED <<sessionLocks, nextSessionId, files, snapshots, versions,
                   sessionVersions, nextVersionId, conversationHistory, runs,
                   lockTrail>>
    /\ UNCHANGED <<nextSnapshotId, taken, restored, now, held>>
    /\ UNCHANGED <<said, wire, context, disk, saves, gemini>>

SM_deleteSession(id) ==
    LET d == deleteSession([sessions |-> sessions, locks |-> sessionLocks], id) IN
    /\ sessions' = d.sessions
    /\ sessionLocks' = d.locks
    /\ lockTrail' = MapDelete(lockTrail, id)
    /\ UNCHANGED <<nextSessionId, files, snapshots, versions, sessionVersions,
                   nextVersionId, conversationHistory, runs>>
    /\ UNCHANGED <<nextSnapshotId, taken, restored, now, held>>
    /\ UNCHANGED <<said, wire, context, disk, saves, gemini>>

\* getSession(id) on an expired session: the call that evicts it.
SM_getSession(id) ==
    LET g == getSession([sessions |-> sessions, locks |-> sessionLocks], id) IN
    /\ id \in DOMAIN sessions /\ ~g.found
    /\ sessions' = g.sm.sessions
    /\ sessionLocks' = g.sm.locks
    /\ lockTrail' = MapDelete(lockTrail, id)
    /\ UNCHANGED <<nextSessionId, files, snapshots, versions, sessionVersions,
                   nextVersionId, conversationHistory, runs>>
    /\ UNCHANGED <<nextSnapshotId, taken, restored, now, held>>
    /\ UNCHANGED <<said, wire, context, disk, saves, gemini>>

\* lockTrail[id] is "locked" after a lockSession(id) that returned true and
\* "unlocked" after an unlockSession(id); deleteSession(id), also the one
\* an evicting getSession(id) makes, removes the entry.
SM_lockSession(id) ==
    LET l == lockSession(sessionLocks, id) IN
    /\ sessionLocks' = l.locks
    /\ lockTrail' = IF l.ok THEN MapSet(lockTrail, id, "locked") ELSE lockTrail
    /\ UNCHANGED <<sessions, nextSessionId, files, snapshots, versions,
                   sessionVersions, nextVersionId, conversationHistory, runs>>
    /\ UNCHANGED <<nextSnapshotId, taken, restored, now, held>>
    /\ UNCHANGED <<said, wire, context, disk, saves, gemini>>

SM_unlockSession(id) ==
    /\ sessionLocks' = unlockSession(sessionLocks, id)
    /\ lockTrail' = MapSet(lockTrail, id, "unlocked")
    /\ UNCHANGED <<sessions, nextSessionId, files, snapshots, versions,
                   sessionVersions, nextVersionId, conversationHistory, runs>>
    /\ UNCHANGED <<nextSnapshotId, taken, restored, now, held>>
    /\ UNCHANGED <<said, wire, context, disk, saves, gemini>>

NextSM ==
    \/ SM_createSession
    \/ \E id \in 1..nextSessionId, newState \in SessionState : SM_transitionState(id, newState)
    \/ \E id \in 1..nextSessionId, versionId \in SomeVersionIds :
           SM_setCurrentVersion(id, versionId)
    \/ \E id \in 1..nextSessionId : SM_deleteSession(id)

\* The session state machine: transitions and version pointers.
SpecSM == Init /\ [][NextSM]_vars

NextLock ==
    \/ SM_createSession
    \/ \E id \in 1..nextSessionId : SM_lockSession(id)
    \/ \E id \in 1..nextSessionId : SM_unlockSession(id)
    \/ \E id \in 1..nextSessionId : SM_deleteSession(id)
    \/ \E id \in 1..nextSessionId : Expire(id)
    \/ \E id \in 1..nextSessionId : SM_getSession(id)
    \/ \E id \in 1..nextSessionId, versionId \in SomeVersionIds :
           SM_setCurrentVersion(id, versionId)

\* The advisory lock: lockSession / unlockSession on the ids of stored and
\* of removed sessions, beside the calls that remove sessions and the one
\* that edits a stored session.
SpecLock == Init /\ [][NextLock]_vars

\* The server: every pipeline run is started by the prompt route.
Spec == Init /\ [][Next]_vars

\* The Orchestrator called directly: runs of execute and fixErrors that
\* interleave at their awaits, with no lock taken by the caller.
SpecOrch == Init /\ [][NextOrch]_vars

(***************************************************************************)
(* The VFS called directly, one method per action.                         *)
(***************************************************************************)
ContentEmpty == [data |-> "", size |-> 0]
ContentAtCap == [data |-> "cap", size |-> MAX_FILE_SIZE]
ContentOverCap == [data |-> "over", size |-> MAX_FILE_SIZE + 1]

PathDotDot == << ".", ".", "/", "a" >>
PathDrive == << "a", ":", "/", "b" >>
PathNul == << "a", "NUL" >>
PathTooLong == [i \in 1..(MAX_PATH_LENGTH + 1) |-> "a"]

\* The paths and contents the callers of the VFS pass.
SafePaths == {PathA, PathB, PathASlash}
UnsafePaths == {PathAbsolute, PathDotDot, PathDrive, PathNul, PathTooLong}
WriteContents == {ContentX, ContentEmpty, ContentAtCap, ContentOverCap}

\* The VFS's fields, as snapshot, restore and diff take them.
Vfs == [files |-> files, snapshots |-> snapshots, nextSnapshotId |-> nextSnapshotId]

VFS_write(path, content) ==
    LET w == write(files, path, content) IN
    /\ files' = w.files
    /\ restored' = IF w.err = "none" THEN NULL ELSE restored
    /\ UNCHANGED <<said, wire, context, disk, saves, gemini>>
    /\ UNCHANGED <<sessions, sessionLocks, nextSessionId, snapshots, versions,
                   sessionVersions, nextVersionId, conversationHistory, runs,
                   lockTrail, nextSnapshotId, taken, now, held>>

VFS_delete(path) ==
    /\ files' = delete(files, path)
    /\ restored' = NULL
    /\ UNCHANGED <<said, wire, context, disk, saves, gemini>>
    /\ UNCHANGED <<sessions, sessionLocks, nextSessionId, snapshots, versions,
                   sessionVersions, nextVersionId, conversationHistory, runs,
                   lockTrail, nextSnapshotId, taken, now, held>>

VFS_snapshot ==
    LET n == snapshot(Vfs) IN
    /\ nextSnapshotId < MaxSnapshots
    /\ files' = n.vfs.files
    /\ snapshots' = n.vfs.snapshots
    /\ nextSnapshotId' = n.vfs.nextSnapshotId
    /\ taken' = MapSet(taken, n.id, files)
    /\ UNCHANGED <<said, wire, context, disk, saves, gemini>>
    /\ UNCHANGED <<sessions, sessionLocks, nextSessionId, versions,
                   sessionVersions, nextVersionId, conversationHistory, runs,
                   lockTrail, restored, now, held>>

VFS_restore(versionId) ==
    LET n == restore(Vfs, versionId) IN
    /\ files' = n.vfs.files
    /\ snapshots' = n.vfs.snapshots
    /\ restored' = IF n.err = "none" THEN versionId ELSE restored
    /\ UNCHANGED <<said, wire, context, disk, saves, gemini>>
    /\ UNCHANGED <<sessions, sessionLocks, nextSessionId, versions,
                   sessionVersions, nextVersionId, conversationHistory, runs,
                   lockTrail, nextSnapshotId, taken, now, held>>

VFS_clear ==
    /\ files' = clear(Vfs).files
    /\ snapshots' = clear(Vfs).snapshots
    /\ taken' = EmptyMap
    /\ restored' = NULL
    /\ UNCHANGED <<said, wire, context, disk, saves, gemini>>
    /\ UNCHANGED <<sessions, sessionLocks, nextSessionId, versions,
                   sessionVersions, nextVersionId, conversationHistory, runs,
                   lockTrail, nextSnapshotId, now, held>>

NextVFS ==
    \/ \E path \in SafePaths, content \in WriteContents : VFS_write(path, content)
    \/ \E path \in UnsafePaths : VFS_write(path, ContentX)
    \/ \E path \in SafePaths : VFS_delete(path)
    \/ VFS_snapshot
    \/ \E versionId \in 1..nextSnapshotId : VFS_restore(versionId)
    \/ VFS_clear

\* The file store: writes, deletes, snapshots, restores and clear in any order.
SpecVFS == Init /\ [][NextVFS]_vars

(***************************************************************************)
(* The VersionManager called directly.                                     *)
(***************************************************************************)
VersionStatus == {"BUILDING", "VALID", "FAILED"}

\* The session ids callers pass: createVersion takes any string.
VmSessionIds == {1, 2}

\* The errorLog argument: left out, or a log.
ErrorLogs == {"undefined", "log"}

\* The VersionManager's fields, the clock, and the record a caller holds.
Vm == [versions |-> versions, sessionVersions |-> sessionVersions,
       nextVersionId |-> nextVersionId, now |-> now, held |-> held]

\* createVersion(sessionId, vfs.getAllFiles(), status)
VM_createVersion(sessionId, status) ==
    LET c == createVersion(Vm, sessionId, getAllFiles(files), status) IN
    /\ nextVersionId < MaxVersions
    /\ versions' = c.vm.versions
    /\ sessionVersions' = c.vm.sessionVersions
    /\ nextVersionId' = c.vm.nextVersionId
    /\ held' = c.vm.held
    /\ UNCHANGED <<said, wire, context, disk, saves, gemini>>
    /\ UNCHANGED <<sessions, sessionLocks, nextSessionId, files, snapshots,
                   conversationHistory, runs, lockTrail, nextSnapshotId,
                   taken, restored, now>>

VM_updateVersionStatus(versionId, status, errorLog) ==
    LET u == updateVersionStatus(Vm, versionId, status, errorLog) IN
    /\ versions' = u.vm.versions
    /\ sessionVersions' = u.vm.sessionVersions
    /\ nextVersionId' = u.vm.nextVersionId
    /\ held' = u.vm.held
    /\ UNCHANGED <<said, wire, context, disk, saves, gemini>>
    /\ UNCHANGED <<sessions, sessionLocks, nextSessionId, files, snapshots,
                   conversationHistory, runs, lockTrail, nextSnapshotId,
                   taken, restored, now>>

\* const v = versionManager.getVersion(versionId), kept by the caller.
VM_getVersion(versionId) ==
    /\ held' = getVersion(Vm, versionId)
    /\ UNCHANGED <<said, wire, context, disk, saves, gemini>>
    /\ UNCHANGED <<sessions, sessionLocks, nextSessionId, files, snapshots,
                   versions, sessionVersions, nextVersionId,
                   conversationHistory, runs, lockTrail, nextSnapshotId,
                   taken, restored, now>>

\* Time passes between two calls.
Tick ==
    /\ now < MaxClock
    /\ now' = now + 1
    /\ UNCHANGED <<said, wire, context, disk, saves, gemini>>
    /\ UNCHANGED <<sessions, sessionLocks, nextSessionId, files, snapshots,
                   versions, sessionVersions, nextVersionId,
                   conversationHistory, runs, lockTrail, nextSnapshotId,
                   taken, restored, held>>

\* Versions minted from a file store that is written, deleted from and
\* cleared in between.
NextVMFiles ==
    \/ \E content \in {ContentX, ContentY} : VFS_write(PathA, content)
    \/ VFS_delete(PathA)
    \/ VFS_clear
    \/ \E status \in VersionStatus : VM_createVersion(1, status)
    \/ \E versionId \in 1..MaxVersions, status \in VersionStatus,
          errorLog \in ErrorLogs :
           VM_updateVersionStatus(versionId, status, errorLog)

SpecVMFiles == Init /\ [][NextVMFiles]_vars

\* The status updates callers make: VALID without a log, FAILED with one.
StatusUpdates == {<<"VALID", "undefined">>, <<"FAILED", "log">>}

\* Versions of two sessions created and updated as time passes.
NextVM ==
    \/ \E sessionId \in VmSessionIds, status \in VersionStatus :
           VM_createVersion(sessionId, status)
    \/ \E versionId \in 1..MaxVersions, u \in StatusUpdates :
           VM_updateVersionStatus(versionId, u[1], u[2])
    \/ Tick

SpecVM == Init /\ [][NextVM]_vars

\* One session's versions, with a caller that keeps what getVersion returned.
NextHold ==
    \/ VM_createVersion(1, "BUILDING")
    \/ \E versionId \in 1..MaxVersions, u \in StatusUpdates :
           VM_updateVersionStatus(versionId, u[1], u[2])
    \/ \E versionId \in 1..MaxVersions : VM_getVersion(versionId)
    \/ Tick

SpecHold == Init /\ [][NextHold]_vars

\* The daysToKeep arguments callers pass.
DaysToKeep == {0, 1}

VM_garbageCollect(daysToKeep) ==
    LET g == garbageCollect(Vm, daysToKeep) IN
    /\ versions' = g.vm.versions
    /\ sessionVersions' = g.vm.sessionVersions
    /\ UNCHANGED <<said, wire, context, disk, saves, gemini>>
    /\ UNCHANGED <<sessions, sessionLocks, nextSessionId, files, snapshots,
                   nextVersionId, conversationHistory, runs, lockTrail,
                   nextSnapshotId, taken, restored, now, held>>

\* Versions of two sessions created and updated as days pass, and collected.
NextGC ==
    \/ \E sessionId \in VmSessionIds : VM_createVersion(sessionId, "BUILDING")
    \/ \E versionId \in 1..MaxVersions, u \in StatusUpdates :
           VM_updateVersionStatus(versionId, u[1], u[2])
    \/ Tick
    \/ \E daysToKeep \in DaysToKeep : VM_garbageCollect(daysToKeep)

SpecGC == Init /\ [][NextGC]_vars


\* Sessions created, driven through states and locked while their 24 hours
\* run out, beside the reads and the sweep that evict them.
NextExpiry ==
    \/ SM_createSession
    \/ \E id \in 1..nextSessionId, newState \in SessionState :
           SM_transitionState(id, newState)
    \/ \E id \in 1..nextSessionId : SM_lockSession(id)
    \/ \E id \in 1..nextSessionId : Expire(id)
    \/ \E id \in 1..nextSessionId : SM_getSession(id)
    \/ CleanupTimer

SpecExpiry == Init /\ [][NextExpiry]_vars


(***************************************************************************)
(* serializeVersion and deserializeVersion applied to a Version.           *)
(***************************************************************************)
\* The time values of the Versions serialized.
SerTimestamps == {0, 9, 10, 120}

\* The file mappings of the Versions serialized: none, one or two files,
\* empty contents among them.
SerFileMaps ==
    UNION {[paths -> {ContentX, ContentEmpty}] : paths \in SUBSET {PathA, PathB}}

\* The Versions serialized.
SerVersions ==
    [id : 1..MaxVersions, timestamp : SerTimestamps, files : SerFileMaps,
     status : VersionStatus, errorLog : ErrorLogs]

\* Init, but with a Version at hand.
InitSer ==
    /\ sessions = EmptyMap
    /\ sessionLocks = EmptyMap
    /\ nextSessionId = 0
    /\ files = EmptyMap
    /\ snapshots = EmptyMap
    /\ versions = EmptyMap
    /\ sessionVersions = EmptyMap
    /\ nextVersionId = 0
    /\ conversationHistory = EmptyMap
    /\ runs = << >>
    /\ lockTrail = EmptyMap
    /\ nextSnapshotId = 0
    /\ taken = EmptyMap
    /\ restored = NULL
    /\ now = 0
    /\ held = NoVersion
    /\ said = EmptyMap
    /\ wire \in {[pc |-> "version", version |-> v] : v \in SerVersions}
    /\ context = NoContext
    /\ disk = EmptyDisk
    /\ saves = EmptyMap
    /\ gemini = NoCall

\* const serialized = manager.serializeVersion(version)
Ser_serializeVersion ==
    /\ wire.pc = "version"
    /\ wire' = [pc |-> "serialized", version |-> wire.version,
                serialized |-> serializeVersion(wire.version)]
    /\ UNCHANGED <<sessions, sessionLocks, nextSessionId, files, snapshots,
                   versions, sessionVersions, nextVersionId,
                   conversationHistory, runs, lockTrail, nextSnapshotId,
                   taken, restored, now, held>>
    /\ UNCHANGED <<said, context, disk, saves, gemini>>

\* const deserialized = manager.deserializeVersion(serialized)
Ser_deserializeVersion ==
    /\ wire.pc = "serialized"
    /\ wire' = [pc |-> "deserialized", version |-> wire.version,
                serialized |-> wire.serialized,
                deserialized |-> deserializeVersion(wire.serialized)]
    /\ UNCHANGED <<sessions, sessionLocks, nextSessionId, files, snapshots,
                   versions, sessionVersions, nextVersionId,
                   conversationHistory, runs, lockTrail, nextSnapshotId,
                   taken, restored, now, held>>
    /\ UNCHANGED <<said, context, disk, saves, gemini>>

NextSer ==
    \/ Ser_serializeVersion
    \/ Ser_deserializeVersion

SpecSer == InitSer /\ [][NextSer]_vars


(***************************************************************************)
(* LocalStorageAdapter.  disk.versionFiles holds <<sessionId, versionId>>  *)
(* for every <versionId>.json under the session's directory; disk.index    *)
(* holds the versionIds of the session's index.json, where that file       *)
(* exists.  A save() call stands at the await it has not yet passed:       *)
(* "mkdir", "writeFile", "readIndex", "writeIndex", or is "done".  An      *)
(* fs call takes effect when its promise settles.                          *)
(***************************************************************************)
\* save(sessionId, version), up to the first await
Store_save(sessionId, versionId) ==
    /\ versionId \notin DOMAIN saves
    /\ saves' = MapSet(saves, versionId,
                       [sessionId |-> sessionId, pc |-> "mkdir", index |-> <<>>])
    /\ UNCHANGED <<sessions, sessionLocks, nextSessionId, files, snapshots,
                   versions, sessionVersions, nextVersionId,
                   conversationHistory, runs, lockTrail, nextSnapshotId,
                   taken, restored, now, held>>
    /\ UNCHANGED <<said, wire, context, disk, gemini>>

\* await fs.mkdir(sessionDir, {recursive: true}) settles; the version is
\* serialized and fs.writeFile(versionFile, ...) is started.
Store_mkdirDone(versionId) ==
    /\ versionId \in DOMAIN saves
    /\ saves[versionId].pc = "mkdir"
    /\ saves' = [saves EXCEPT ![versionId].pc = "writeFile"]
    /\ UNCHANGED <<sessions, sessionLocks, nextSessionId, files, snapshots,
                   versions, sessionVersions, nextVersionId,
                   conversationHistory, runs, lockTrail, nextSnapshotId,
                   taken, restored, now, held>>
    /\ UNCHANGED <<said, wire, context, disk, gemini>>

\* await fs.writeFile(versionFile, ...) settles; updateSessionIndex starts
\* fs.readFile(indexPath).
Store_writeFileDone(versionId) ==
    /\ versionId \in DOMAIN saves
    /\ saves[versionId].pc = "writeFile"
    /\ disk' = [disk EXCEPT !.versionFiles =
                   @ \cup {<<saves[versionId].sessionId, versionId>>}]
    /\ saves' = [saves EXCEPT ![versionId].pc = "readIndex"]
    /\ UNCHANGED <<sessions, sessionLocks, nextSessionId, files, snapshots,
                   versions, sessionVersions, nextVersionId,
                   conversationHistory, runs, lockTrail, nextSnapshotId,
                   taken, restored, now, held>>
    /\ UNCHANGED <<said, wire, context, gemini>>

\* await fs.readFile(indexPath) settles (or rejects: no index yet); the id
\* is pushed unless included and fs.writeFile(indexPath, ...) is started.
Store_readIndexDone(versionId) ==
    /\ versionId \in DOMAIN saves
    /\ saves[versionId].pc = "readIndex"
    /\ LET sessionId == saves[versionId].sessionId
           index == IF sessionId \in DOMAIN disk.index
                    THEN disk.index[sessionId] ELSE <<>>
       IN  saves' = [saves EXCEPT ![versionId] =
               IF \E i \in 1..Len(index) : index[i] = versionId
               THEN [@ EXCEPT !.pc = "done", !.index = index]
               ELSE [@ EXCEPT !.pc = "writeIndex",
                              !.index = Append(index, versionId)]]
    /\ UNCHANGED <<sessions, sessionLocks, nextSessionId, files, snapshots,
                   versions, sessionVersions, nextVersionId,
                   conversationHistory, runs, lockTrail, nextSnapshotId,
                   taken, restored, now, held>>
    /\ UNCHANGED <<said, wire, context, disk, gemini>>

\* await fs.writeFile(indexPath, ...) settles; save() resolves.
Store_writeIndexDone(versionId) ==
    /\ versionId \in DOMAIN saves
    /\ saves[versionId].pc = "writeIndex"
    /\ disk' = [disk EXCEPT !.index =
                   MapSet(@, saves[versionId].sessionId, saves[versionId].index)]
    /\ saves' = [saves EXCEPT ![versionId].pc = "done"]
    /\ UNCHANGED <<sessions, sessionLocks, nextSessionId, files, snapshots,
                   versions, sessionVersions, nextVersionId,
                   conversationHistory, runs, lockTrail, nextSnapshotId,
                   taken, restored, now, held>>
    /\ UNCHANGED <<said, wire, context, gemini>>

\* list(sessionId) on a disk no call is writing to: the ids of the Versions
\* returned, i.e. the ids of the index whose version file load() finds.
LocalStorageAdapter_list(d, sessionId) ==
    IF sessionId \notin DOMAIN d.index THEN <<>>
    ELSE SelectSeq(d.index[sessionId],
                   LAMBDA versionId : <<sessionId, versionId>> \in d.versionFiles)

\* save() called for distinct versions, of one session or of two, not
\* awaited one after the other.
NextStore ==
    \/ \E sessionId \in VmSessionIds, versionId \in 1..MaxVersions :
           Store_save(sessionId, versionId)
    \/ \E versionId \in 1..MaxVersions : Store_mkdirDone(versionId)
    \/ \E versionId \in 1..MaxVersions : Store_writeFileDone(versionId)
    \/ \E versionId \in 1..MaxVersions : Store_readIndexDone(versionId)
    \/ \E versionId \in 1..MaxVersions : Store_writeIndexDone(versionId)

SpecStore == Init /\ [][NextStore]_vars


(***************************************************************************)
(* The ContextManager called directly.                                     *)
(***************************************************************************)
\* The messages added so far, over all sessions.
MessagesSaid ==
    LET RECURSIVE Total(_)
        Total(ids) == IF ids = {} THEN 0
                      ELSE LET id == CHOOSE x \in ids : TRUE IN
                           Len(said[id]) + Total(ids \ {id})
    IN  Total(DOMAIN said)

\* addMessage(sessionId, role, content); the content is the number of the
\* message, so that no two messages are alike.
CM_addMessage(sessionId, role) ==
    LET message == [role |-> role, content |-> MessagesSaid + 1] IN
    /\ MessagesSaid < MaxMessages
    /\ conversationHistory' = addMessage(conversationHistory, sessionId, message)
    /\ said' = MapSet(said, sessionId,
                      IF sessionId \in DOMAIN said
                      THEN Append(said[sessionId], message) ELSE <<message>>)
    /\ UNCHANGED <<sessions, sessionLocks, nextSessionId, files, snapshots,
                   versions, sessionVersions, nextVersionId, runs, lockTrail,
                   nextSnapshotId, taken, restored, now, held>>
    /\ UNCHANGED <<wire, context, disk, saves, gemini>>

NextCM ==
    \E sessionId \in VmSessionIds, role \in {"user", "assistant"} :
        CM_addMessage(sessionId, role)

SpecCM == Init /\ [][NextCM]_vars


(***************************************************************************)
(* buildContext applied to a version's paths and a list of changes.        *)
(***************************************************************************)
PathAppTs == <<"a", "p", "p", ".", "t", "s">>
PathATs == <<"a", ".", "t", "s">>
PathNested == <<"b", "/", "a">>

\* The paths of versions and of changes.
CtxPaths == {PathA, PathB, PathAppTs, PathATs, PathNested}

\* The lists of n distinct paths.
DistinctLists(n) ==
    {l \in [1..n -> CtxPaths] : \A i, j \in 1..n : i # j => l[i] # l[j]}

\* The paths of a version, in the order of its Map: up to three files.
CtxFileLists == UNION {DistinctLists(n) : n \in 0..3}

\* The recentChanges argument: up to MaxChanges modifications of distinct
\* paths.
CtxChangeLists ==
    {[i \in 1..Len(l) |-> FileDiff(l[i], "modified", ContentX, ContentY)] :
        l \in UNION {DistinctLists(n) : n \in 0..MaxChanges}}

\* Init, but with the arguments of a buildContext call at hand.
InitCtx ==
    /\ sessions = EmptyMap
    /\ sessionLocks = EmptyMap
    /\ nextSessionId = 0
    /\ files = EmptyMap
    /\ snapshots = EmptyMap
    /\ versions = EmptyMap
    /\ sessionVersions = EmptyMap
    /\ nextVersionId = 0
    /\ conversationHistory = EmptyMap
    /\ runs = << >>
    /\ lockTrail = EmptyMap
    /\ nextSnapshotId = 0
    /\ taken = EmptyMap
    /\ restored = NULL
    /\ now = 0
    /\ held = NoVersion
    /\ said = EmptyMap
    /\ wire = NoWire
    /\ context \in {[pc |-> "args", existingFiles |-> f, recentChanges |-> c] :
                       f \in CtxFileLists, c \in CtxChangeLists}
    /\ disk = EmptyDisk
    /\ saves = EmptyMap
    /\ gemini = NoCall

\* const context = manager.buildContext(sessionId, version, recentChanges)
Ctx_buildContext ==
    /\ context.pc = "args"
    /\ context' = [pc |-> "built", existingFiles |-> context.existingFiles,
                   recentChanges |-> context.recentChanges,
                   built |-> buildContext(conversationHistory, 1,
                                          context.existingFiles,
                                          context.recentChanges)]
    /\ UNCHANGED <<sessions, sessionLocks, nextSessionId, files, snapshots,
                   versions, sessionVersions, nextVersionId,
                   conversationHistory, runs, lockTrail, nextSnapshotId,
                   taken, restored, now, held>>
    /\ UNCHANGED <<said, wire, disk, saves, gemini>>

NextCtx == Ctx_buildContext

SpecCtx == InitCtx /\ [][NextCtx]_vars


(***************************************************************************)
(* GeminiClient.generateContent.  gemini.pc is "calling" while the race    *)
(* between the model call and the timeout is pending, "sleeping" during a  *)
(* backoff, "returned" or "thrown" when the call is over.  An error is its *)
(* message, a list of words, and the number of the model call it ended.    *)
(***************************************************************************)
NoError == [message |-> <<>>, call |-> 0]

\* Messages of errors an attempt can end with: the timeout's, the SDK's.
RetryableMessages ==
    {<<"Request", "timeout">>, <<"503", "UNAVAILABLE">>, <<"fetch", "failed">>}

NonRetryableMessages ==
    {<<"API_KEY", "invalid">>, <<"403", "PERMISSION_DENIED">>,
     <<"400", "INVALID_ARGUMENT">>}

isNonRetryableError(error) ==
    \/ Contains(error.message, "API_KEY")
    \/ Contains(error.message, "PERMISSION_DENIED")
    \/ Contains(error.message, "INVALID_ARGUMENT")

\* Math.min(1000 * Math.pow(2, attempt), 10000)
BackoffDelay(attempt) ==
    IF 1000 * (2 ^ attempt) < 10000 THEN 1000 * (2 ^ attempt) ELSE 10000

\* The top of the for loop: another model call if attempt < retries, else
\* throw lastError || new Error('Failed to generate content after retries').
LoopTop(g) ==
    IF g.attempt < g.retries
    THEN [g EXCEPT !.pc = "calling", !.calls = @ + 1]
    ELSE [g EXCEPT !.pc = "thrown",
                   !.error = IF g.lastError # NoError THEN g.lastError
                             ELSE [message |-> <<"Failed">>, call |-> 0]]

CatchBlock_AlwaysSleeps(g, error) ==
    IF isNonRetryableError(error)
    THEN [g EXCEPT !.lastError = error, !.pc = "thrown", !.error = error]
    ELSE [g EXCEPT !.lastError = error, !.pc = "sleeping",
                   !.sleeps = Append(@, BackoffDelay(g.attempt))]

\* The catch block of an attempt, up to its await or to the loop's next
\* round.
CatchBlock(g, error) ==
    IF isNonRetryableError(error)
    THEN [g EXCEPT !.lastError = error, !.pc = "thrown", !.error = error]
    ELSE IF g.attempt < g.retries - 1
    THEN [g EXCEPT !.lastError = error, !.pc = "sleeping",
                   !.sleeps = Append(@, BackoffDelay(g.attempt))]
    ELSE LoopTop([g EXCEPT !.lastError = error, !.attempt = @ + 1])

\* generateContent(prompt, {retries}), up to the first await
Gem_generateContent(retries) ==
    /\ gemini.pc = "none"
    /\ gemini' = LoopTop([pc |-> "none", retries |-> retries, attempt |-> 0,
                          calls |-> 0, sleeps |-> <<>>, lastError |-> NoError,
                          error |-> NoError])
    /\ UNCHANGED <<sessions, sessionLocks, nextSessionId, files, snapshots,
                   versions, sessionVersions, nextVersionId,
                   conversationHistory, runs, lockTrail, nextSnapshotId,
                   taken, restored, now, held>>
    /\ UNCHANGED <<said, wire, context, disk, saves>>

\* The race is won by the model's response: return response.text().
Gem_response ==
    /\ gemini.pc = "calling"
    /\ gemini' = [gemini EXCEPT !.pc = "returned"]
    /\ UNCHANGED <<sessions, sessionLocks, nextSessionId, files, snapshots,
                   versions, sessionVersions, nextVersionId,
                   conversationHistory, runs, lockTrail, nextSnapshotId,
                   taken, restored, now, held>>
    /\ UNCHANGED <<said, wire, context, disk, saves>>

\* The attempt ends with an error: the model call rejects, the timeout
\* fires first, or response.text() throws.
Gem_error(message) ==
    /\ gemini.pc = "calling"
    /\ gemini' = CatchBlock(gemini, [message |-> message, call |-> gemini.calls])
    /\ UNCHANGED <<sessions, sessionLocks, nextSessionId, files, snapshots,
                   versions, sessionVersions, nextVersionId,
                   conversationHistory, runs, lockTrail, nextSnapshotId,
                   taken, restored, now, held>>
    /\ UNCHANGED <<said, wire, context, disk, saves>>

\* await this.sleep(delay) is over: attempt++ and the loop's next round.
Gem_wake ==
    /\ gemini.pc = "sleeping"
    /\ gemini' = LoopTop([gemini EXCEPT !.attempt = @ + 1])
    /\ UNCHANGED <<sessions, sessionLocks, nextSessionId, files, snapshots,
                   versions, sessionVersions, nextVersionId,
                   conversationHistory, runs, lockTrail, nextSnapshotId,
                   taken, restored, now, held>>
    /\ UNCHANGED <<said, wire, context, disk, saves>>

NextGemini ==
    \/ \E retries \in 1..MaxRetries : Gem_generateContent(retries)
    \/ Gem_response
    \/ \E message \in RetryableMessages \cup NonRetryableMessages :
           Gem_error(message)
    \/ Gem_wake

\* Every race settles (the timeout sees to it) and every sleep ends.
SpecGemini == Init /\ [][NextGemini]_vars /\ WF_vars(NextGemini)


(***************************************************************************)
(* The SessionManager methods that take a session id and move a session    *)
(* through its states, lock it or remove it, called on the ids of stored   *)
(* and of removed sessions.                                                *)
(***************************************************************************)
NextLifecycle ==
    \/ SM_createSession
    \/ \E id \in 1..nextSessionId, newState \in SessionState : SM_transitionState(id, newState)
    \/ \E id \in 1..nextSessionId : SM_lockSession(id)
    \/ \E id \in 1..nextSessionId : SM_unlockSession(id)
    \/ \E id \in 1..nextSessionId : SM_deleteSession(id)
    \/ \E id \in 1..nextSessionId : Expire(id)
    \/ \E id \in 1..nextSessionId : SM_getSession(id)

SpecLifecycle == Init /\ [][NextLifecycle]_vars


(***************************************************************************)
(* The VersionManager's two maps under every method that writes them.      *)
(***************************************************************************)
VM_clear ==
    LET c == VersionManager_clear(Vm) IN
    /\ versions' = c.versions
    /\ sessionVersions' = c.sessionVersions
    /\ UNCHANGED <<said, wire, context, disk, saves, gemini>>
    /\ UNCHANGED <<sessions, sessionLocks, nextSessionId, files, snapshots,
                   nextVersionId, conversationHistory, runs, lockTrail,
                   nextSnapshotId, taken, restored, now, held>>

NextIndex ==
    \/ \E sessionId \in VmSessionIds, status \in {"BUILDING", "VALID"} :
           VM_createVersion(sessionId, status)
    \/ \E versionId \in 1..MaxVersions, u \in StatusUpdates :
           VM_updateVersionStatus(versionId, u[1], u[2])
    \/ Tick
    \/ \E daysToKeep \in DaysToKeep : VM_garbageCollect(daysToKeep)
    \/ VM_clear

SpecIndex == Init /\ [][NextIndex]_vars


(***************************************************************************)
(* Properties.                                                             *)
(***************************************************************************)
\* The transition table as the specification lists it.
TransitionTable(s) ==
    CASE s = "CREATED"    -> {"GENERATING", "FAILED"}
      [] s = "GENERATING" -> {"BUILDING", "FAILED"}
      [] s = "BUILDING"   -> {"VALIDATING", "FAILED"}
      [] s = "VALIDATING" -> {"READY", "FAILED"}
      [] s = "READY"      -> {"GENERATING", "BUILDING", "FIXING"}
      [] s = "FAILED"     -> {"FIXING", "GENERATING"}
      [] s = "FIXING"     -> {"BUILDING", "FAILED"}

\* C1: transitionState on a stored session succeeds and sets the state to the
\* target if and only if the target is in the table's set for the current
\* state; any other target fails with InvalidTransition and leaves state,
\* currentVersion and lastValidVersion as they were.
C1_TransitionClosure ==
    \A id \in DOMAIN sessions, target \in SessionState :
        LET t == transitionState(sessions, id, target) IN
        IF target \in TransitionTable(sessions[id].state)
        THEN /\ t.err = "none"
             /\ t.sessions[id].state = target
        ELSE /\ t.err = "InvalidTransition"
             /\ t.sessions[id].state = sessions[id].state
             /\ t.sessions[id].currentVersion = sessions[id].currentVersion
             /\ t.sessions[id].lastValidVersion = sessions[id].lastValidVersion

\* C1 witness: a session that transitions brought to READY and on to FIXING,
\* with both version pointers set and different.
C1_Witness ==
    \E id \in DOMAIN sessions :
        /\ sessions[id].state = "FIXING"
        /\ sessions[id].lastValidVersion = 1
        /\ sessions[id].currentVersion = 2

\* C4: lockSession returns true and sets the flag exactly when the flag was
\* not set, returns false and leaves it set when it was; unlockSession clears
\* it; and after a lockSession(id) that returned true, with no unlockSession(id)
\* since, lockSession(id) returns false.
C4_LockTestAndSet ==
    \A id \in 1..nextSessionId :
        LET l == lockSession(sessionLocks, id) IN
        /\ l.ok = ~isLocked(sessionLocks, id)
        /\ isLocked(l.locks, id)
        /\ ~isLocked(unlockSession(sessionLocks, id), id)
        /\ (id \in DOMAIN lockTrail /\ lockTrail[id] = "locked") => ~l.ok
        /\ (id \in DOMAIN lockTrail /\ lockTrail[id] = "unlocked") => l.ok

\* C4 witness: one id locked anew after an unlock while the other id, once
\* unlocked, is free.
C4_Witness ==
    /\ 1 \in DOMAIN lockTrail /\ lockTrail[1] = "locked"
    /\ 2 \in DOMAIN lockTrail /\ lockTrail[2] = "unlocked"
    /\ isLocked(sessionLocks, 1)
    /\ ~isLocked(sessionLocks, 2)

\* The SessionManager's maps, as getSession and the routes take them.
Manager == [sessions |-> sessions, locks |-> sessionLocks]

\* The runs of session id that are inside Orchestrator.execute.
InFlight(id) ==
    {r \in 1..Len(runs) : runs[r].sid = id /\ runs[r].result = "pending"}

\* The last run started for the session of run r.
IsLatestRun(r) ==
    \A r2 \in 1..Len(runs) : runs[r2].sid = runs[r].sid => r2 <= r

\* C2 as stated: at most one prompt request per session is between lock
\* acquisition and release, and every request that arrives while the lock is
\* held is answered 409.
C2_EveryRequestBusy ==
    \A id \in 1..nextSessionId :
        /\ Cardinality(InFlight(id)) <= 1
        /\ \A promptOk \in BOOLEAN :
               isLocked(sessionLocks, id) => PromptReply(Manager, id, promptOk) = "409"

\* C2 amended: at most one prompt request per session is between lock
\* acquisition and release; while the lock is held a request with an empty
\* prompt is answered 400, one for a session that has expired is answered
\* 404, every other one 409; none is admitted to the pipeline.
C2_MutualExclusion ==
    \A id \in 1..nextSessionId :
        /\ Cardinality(InFlight(id)) <= 1
        /\ \A r \in InFlight(id) : runs[r].locked
        /\ \A promptOk \in BOOLEAN :
               isLocked(sessionLocks, id) =>
                   PromptReply(Manager, id, promptOk) =
                       IF ~promptOk THEN "400"
                       ELSE IF id \notin DOMAIN sessions \/ sessions[id].expired
                       THEN "404"
                       ELSE "409"

\* C2 witness: a run holds the lock of a live session while the other
\* session's run holds the lock of a session that has expired.
C2_Witness ==
    \E id, other \in DOMAIN sessions :
        /\ InFlight(id) # {} /\ InFlight(other) # {}
        /\ isLocked(sessionLocks, id) /\ isLocked(sessionLocks, other)
        /\ sessions[other].expired /\ ~sessions[id].expired
        /\ PromptReply(Manager, id, TRUE) = "409"
        /\ PromptReply(Manager, other, TRUE) = "404"

\* C3: the lock a prompt request took is released on every exit path: a
\* session is locked only while a run that took its lock is in progress, and
\* with no run in progress a prompt for the session is not answered 409.
C3_LockReleased ==
    \A id \in 1..nextSessionId :
        /\ isLocked(sessionLocks, id) =>
               \E r \in InFlight(id) : runs[r].locked
        /\ InFlight(id) = {} => PromptReply(Manager, id, TRUE) # "409"

\* C3 witness: a request that took the lock failed at the commit and one
\* whose session was deleted mid-run failed too; neither lock is set and the
\* stored session admits a prompt again.
C3_Witness ==
    \E r, q \in 1..Len(runs) :
        /\ runs[r].locked /\ runs[r].resp = "500" /\ runs[r].generated
        /\ runs[r].sid \in DOMAIN sessions
        /\ PromptReply(Manager, runs[r].sid, TRUE) = "admitted"
        /\ runs[q].locked /\ runs[q].resp = "500"
        /\ runs[q].sid \notin DOMAIN sessions
        /\ ~isLocked(sessionLocks, runs[q].sid)

\* C5 as stated: whenever a run that passed its session lookup rejects while
\* its session is stored, the session's state is FAILED at that moment and
\* the error that leaves is the original failure.
C5_FailedBeforeRejecting ==
    [][\A r \in 1..Len(runs') :
          ( /\ runs'[r].result = "rejected"
            /\ runs'[r].entered
            /\ (r > Len(runs) \/ runs[r].result # "rejected")
            /\ runs'[r].sid \in DOMAIN sessions' )
          => /\ sessions'[runs'[r].sid].state = "FAILED"
             /\ runs'[r].original]_vars

\* C6: a failed prompt leaves lastValidVersion untouched: after a run is
\* rejected, and until a later run of the session resolves, the session's
\* lastValidVersion is the one it had when the run started.
C6_LastValidUntouched ==
    \A r \in 1..Len(runs) :
        ( /\ runs[r].result = "rejected"
          /\ runs[r].sid \in DOMAIN sessions
          /\ \A r2 \in 1..Len(runs) :
                 (r2 > r /\ runs[r2].sid = runs[r].sid) => runs[r2].result # "resolved" )
        => sessions[runs[r].sid].lastValidVersion = runs[r].lastValidBefore

\* C6 witness: a session with a valid version whose next prompt failed at
\* the commit (a rejected write) and left the session FAILED.
C6_Witness ==
    \E r \in 1..Len(runs) :
        /\ runs[r].result = "rejected" /\ runs[r].generated
        /\ runs[r].lastValidBefore # NULL
        /\ runs[r].sid \in DOMAIN sessions
        /\ sessions[runs[r].sid].state = "FAILED"
        /\ sessions[runs[r].sid].lastValidVersion = runs[r].lastValidBefore

\* C7 as stated: after a failed prompt that left the session FAILED, the
\* session's currentVersion is a version minted for that run, not the one
\* that was current before the run.
C7_CurrentIsFailedAttempt ==
    \A r \in 1..Len(runs) :
        ( /\ runs[r].result = "rejected"
          /\ IsLatestRun(r)
          /\ runs[r].sid \in DOMAIN sessions
          /\ sessions[runs[r].sid].state = "FAILED" )
        => /\ runs[r].version # NULL
           /\ sessions[runs[r].sid].currentVersion = runs[r].version
           /\ sessions[runs[r].sid].currentVersion # runs[r].currentBefore

\* The paths of a generated file set, as generated.
PathsOf(entries) == {entries[i][1] : i \in 1..Len(entries)}

\* The generated file set as a mapping: Object.entries read back.
AsGenerated(entries) ==
    [p \in PathsOf(entries) |->
        entries[CHOOSE i \in 1..Len(entries) : entries[i][1] = p][2]]

\* The generated file set with its paths normalized, a later entry replacing
\* an earlier one that normalizes to the same path.
AsNormalized(entries) ==
    [k \in {normalizePath(p) : p \in PathsOf(entries)} |->
        entries[CHOOSE i \in 1..Len(entries) :
                    /\ normalizePath(entries[i][1]) = k
                    /\ \A j \in (i + 1)..Len(entries) :
                           normalizePath(entries[j][1]) # k][2]]

\* What C8 says of a resolved run, the file mapping apart.
ResolvedRunOutcome(r) ==
    LET sid == runs[r].sid
        V == runs[r].version
    IN  /\ V \in DOMAIN versions
        /\ versions[V].status = "VALID"
        /\ sid \in DOMAIN sessionVersions
        /\ sessionVersions[sid][Len(sessionVersions[sid])] = V
        /\ \A q \in 1..(r - 1) : runs[q].version # V
        /\ sid \in DOMAIN sessions =>
               /\ sessions[sid].state = "READY"
               /\ sessions[sid].currentVersion = V
               /\ sessions[sid].lastValidVersion = V

\* C8 as stated: when execute resolves with V for a session that started in
\* CREATED, READY or FAILED, with no other run of the session interleaved,
\* the session is READY with currentVersion = lastValidVersion = V, V is
\* VALID, V's file mapping equals the generated file set, V is the newest of
\* the session's versions and differs from the ids of earlier runs.
C8_ResolvedEqualsGenerated ==
    \A r \in 1..Len(runs) :
        ( /\ runs[r].result = "resolved" /\ IsLatestRun(r)
          /\ runs[r].stateBefore \in {"CREATED", "READY", "FAILED"} )
        => /\ ResolvedRunOutcome(r)
           /\ versions[runs[r].version].files = AsGenerated(runs[r].fileSet)

\* C8 amended: the same, with V's file mapping equal to the generated file
\* set under path normalization: each path normalized, and of two entries
\* that normalize to the same path the later one kept.
C8_ResolvedEqualsNormalized ==
    \A r \in 1..Len(runs) :
        ( /\ runs[r].result = "resolved" /\ IsLatestRun(r)
          /\ runs[r].stateBefore \in {"CREATED", "READY", "FAILED"} )
        => /\ ResolvedRunOutcome(r)
           /\ versions[runs[r].version].files = AsNormalized(runs[r].fileSet)

\* C8 witness: a second prompt of a READY session resolved with a file set
\* holding a path that is not normalized.
C8_Witness ==
    \E r \in 1..Len(runs) :
        /\ runs[r].result = "resolved" /\ IsLatestRun(r)
        /\ runs[r].stateBefore = "READY"
        /\ runs[r].lastValidBefore # NULL
        /\ PathASlash \in PathsOf(runs[r].fileSet)
        /\ runs[r].sid \in DOMAIN sessions
        /\ sessions[runs[r].sid].lastValidVersion = runs[r].version

IsTransition(c) == c.op = "transitionState"

IsThrow(c) == c.op = "throw"

\* Where in a trail the calls of one operation stand.
Positions(t, op) == {i \in 1..Len(t) : t[i].op = op}

\* C9: a run that resolves made exactly the transitions GENERATING, BUILDING,
\* VALIDATING, READY in that order, none of which threw; its writes precede
\* getAllFiles, which precedes createVersion, then setCurrentVersion, then the
\* transition to READY; and once a call has thrown, the only transition a
\* run attempts is the one to FAILED, once.
C9_PipelineOrder ==
    \A r \in 1..Len(runs) :
        LET t == runs[r].trail
            tr == SelectSeq(t, IsTransition)
        IN  /\ runs[r].result = "resolved" =>
                /\ [i \in 1..Len(tr) |-> tr[i].arg] =
                       <<"GENERATING", "BUILDING", "VALIDATING", "READY">>
                /\ SelectSeq(t, IsThrow) = << >>
                /\ Cardinality(Positions(t, "write")) = 1
                /\ Cardinality(Positions(t, "getAllFiles")) = 1
                /\ Cardinality(Positions(t, "createVersion")) = 1
                /\ Cardinality(Positions(t, "setCurrentVersion")) = 1
                /\ \A w \in Positions(t, "write"), g \in Positions(t, "getAllFiles"),
                      c \in Positions(t, "createVersion") :
                       w < g /\ g < c
                /\ \A c \in Positions(t, "createVersion"),
                      s \in Positions(t, "setCurrentVersion") :
                       /\ c < s
                       /\ \E d \in (s + 1)..Len(t) :
                              t[d] = Call("transitionState", "READY")
            /\ \A i \in 1..Len(t) :
                   IsThrow(t[i]) =>
                       /\ \A j \in (i + 1)..Len(t) :
                              IsTransition(t[j]) => t[j].arg = "FAILED"
                       /\ Cardinality({j \in (i + 1)..Len(t) : ~IsThrow(t[j])}) <= 1

\* C9 witness: one run resolved and another failed at a rejected write,
\* after which it went to FAILED.
C9_Witness ==
    \E r, q \in 1..Len(runs) :
        /\ runs[r].result = "resolved"
        /\ runs[q].result = "rejected" /\ runs[q].generated
        /\ \E i \in 1..Len(runs[q].trail) :
               runs[q].trail[i] = Call("throw", "InvalidPath")
        /\ runs[q].trail[Len(runs[q].trail)] = Call("transitionState", "FAILED")

C11_ReadySideEffect ==
    \A id \in DOMAIN sessions, target \in SessionState :
        LET t == transitionState(sessions, id, target) IN
        IF t.err = "none" /\ target = "READY" /\ sessions[id].currentVersion # NULL
        THEN /\ t.sessions[id].lastValidVersion = sessions[id].currentVersion
             /\ t.sessions[id].currentVersion = sessions[id].currentVersion
        ELSE t.sessions[id].lastValidVersion = sessions[id].lastValidVersion

\* C11 witness: a session in VALIDATING, about to enter READY, whose
\* currentVersion was set after an earlier READY recorded another version.
C11_Witness ==
    \E id \in DOMAIN sessions :
        /\ sessions[id].state = "VALIDATING"
        /\ sessions[id].lastValidVersion = 1
        /\ sessions[id].currentVersion = 2
        /\ transitionState(sessions, id, "READY").sessions[id].lastValidVersion = 2
        /\ transitionState(sessions, id, "FAILED").sessions[id].lastValidVersion = 1

\* C12: once snapshot() has returned S, no write, delete, snapshot or restore
\* changes what restore and diff observe for S: in every state reached since,
\* until clear() is called, S is retained, restore(S) reinstates the mapping
\* the store held when S was taken, and diff(S, T), for every retained T,
\* yields the entries that the two mappings as taken give.
C12_SnapshotIsolation ==
    /\ \A S \in DOMAIN taken :
           /\ restore(Vfs, S).err = "none"
           /\ restore(Vfs, S).vfs.files = taken[S]
    /\ \A S \in DOMAIN taken, T \in DOMAIN taken :
           diff(Vfs, S, T) =
               diff([Vfs EXCEPT !.snapshots = taken], S, T)
    /\ DOMAIN snapshots = DOMAIN taken

\* C12 witness: two snapshots of different mappings are retained and a file
\* of the first has been overwritten in the store since both were taken.
C12_Witness ==
    /\ DOMAIN taken = {1, 2}
    /\ taken[1] # taken[2]
    /\ restored = NULL
    /\ files # taken[1] /\ files # taken[2]
    /\ DOMAIN files = DOMAIN taken[1]
    /\ \E path \in DOMAIN files : files[path] # taken[1][path]

\* C13: after restore(id) the store's list() and read() give exactly the
\* state at the moment snapshot() returned id: the same paths, each with the
\* content it had then, whatever was written, deleted or snapshotted since.
C13_RestoreExact ==
    restored # NULL =>
        /\ list(files) = DOMAIN taken[restored]
        /\ \A path \in SafePaths :
               read(files, path) =
                   IF normalizePath(path) \in DOMAIN taken[restored]
                   THEN [err |-> "none", content |-> taken[restored][normalizePath(path)]]
                   ELSE [err |-> "FileNotFound", content |-> "undefined"]

\* C13 witness: snapshot 1 restored after a path of it was modified and
\* another path added, as the later snapshot 2 recorded.
C13_Witness ==
    /\ restored = 1
    /\ DOMAIN taken = {1, 2}
    /\ \E path \in DOMAIN taken[2] : path \notin DOMAIN taken[1]
    /\ \E path \in DOMAIN taken[1] :
           path \in DOMAIN taken[2] /\ taken[1][path] # taken[2][path]
    /\ files = taken[1]

\* The paths under which the store keeps files.
StoredPaths == {normalizePath(path) : path \in SafePaths}

\* C14: for two retained snapshots A and B, diff(A, B) holds exactly one
\* entry for every path whose presence or content differs: "added" iff the
\* path is absent in A and present in B, "deleted" iff present in A and
\* absent in B, "modified" iff present in both with different contents (an
\* empty content is a present file); a path with the same content in both,
\* or absent in both, has no entry.
C14_DiffComplete ==
    \A A \in DOMAIN snapshots, B \in DOMAIN snapshots :
        LET d == diff(Vfs, A, B) IN
        /\ d.err = "none"
        /\ \A e \in d.diffs : e.path \in StoredPaths
        /\ \A path \in StoredPaths :
               LET entries == {e \in d.diffs : e.path = path}
                   inA == path \in DOMAIN snapshots[A]
                   inB == path \in DOMAIN snapshots[B]
               IN  IF ~inA /\ inB
                   THEN entries = {FileDiff(path, "added", "undefined", snapshots[B][path])}
                   ELSE IF inA /\ ~inB
                   THEN entries = {FileDiff(path, "deleted", snapshots[A][path], "undefined")}
                   ELSE IF inA /\ inB /\ snapshots[A][path] # snapshots[B][path]
                   THEN entries = {FileDiff(path, "modified", snapshots[A][path],
                                            snapshots[B][path])}
                   ELSE entries = {}

\* C14 witness: between the two snapshots a file with empty content was
\* deleted and another file added; each direction of the diff has two entries.
C14_Witness ==
    /\ DOMAIN snapshots = {1, 2}
    /\ DOMAIN snapshots[1] = {PathA} /\ snapshots[1][PathA] = ContentEmpty
    /\ DOMAIN snapshots[2] = {PathB}
    /\ Cardinality(diff(Vfs, 1, 2).diffs) = 2
    /\ Cardinality(diff(Vfs, 2, 1).diffs) = 2

\* C15: for every path that contains "..", starts with "/", starts with a
\* drive-letter prefix, contains a null byte or is longer than 4096
\* characters, and every content, write fails with InvalidPath and the
\* working mapping is as before the call (write has no access to the
\* retained snapshots).
C15_PathSafety ==
    \A path \in UnsafePaths, content \in WriteContents :
        /\ write(files, path, content).err = "InvalidPath"
        /\ write(files, path, content).files = files

\* C15 witness: a store that holds files and a snapshot, on which the write
\* of an unsafe path whose normal form is a stored path is rejected.
C15_Witness ==
    /\ PathA \in DOMAIN files /\ files[PathA] = ContentEmpty
    /\ snapshots # EmptyMap
    /\ normalizePath(PathAbsolute) = PathA
    /\ write(files, PathAbsolute, ContentX).err = "InvalidPath"

\* C16: on a path the store accepts, write of a content one byte over the
\* cap of 10 * 1024 * 1024 bytes fails with FileTooLarge and the working
\* mapping is as before; write of a content of exactly the cap succeeds and
\* stores it under the normalized path, leaving the other paths alone.
C16_SizeLimit ==
    /\ ContentAtCap.size = 10 * 1024 * 1024
    /\ ContentOverCap.size = 10 * 1024 * 1024 + 1
    /\ \A path \in SafePaths :
           /\ write(files, path, ContentOverCap).err = "FileTooLarge"
           /\ write(files, path, ContentOverCap).files = files
           /\ write(files, path, ContentAtCap).err = "none"
           /\ read(write(files, path, ContentAtCap).files, path) =
                  [err |-> "none", content |-> ContentAtCap]
           /\ \A other \in (DOMAIN files) \ {normalizePath(path)} :
                  write(files, path, ContentAtCap).files[other] = files[other]

\* C16 witness: the store holds a file of exactly the cap beside a smaller one.
C16_Witness ==
    /\ PathA \in DOMAIN files /\ files[PathA] = ContentAtCap
    /\ PathB \in DOMAIN files /\ files[PathB] = ContentX

\* C17: no step changes the file mapping of a version that exists: not a
\* write, delete or clear on the store the version was minted from, not the
\* minting of another version, not an updateVersionStatus call on it.
C17_VersionFilesFixed ==
    [][\A v \in DOMAIN versions :
           v \in DOMAIN versions' => versions'[v].files = versions[v].files]_vars

\* C17 witness: a version with a file, whose status was updated after it was
\* minted and whose store has changed since.
C17_Witness ==
    \E v \in DOMAIN versions :
        /\ versions[v].files # EmptyMap
        /\ versions[v].files # files
        /\ versions[v].errorLog = "log"

\* C18: in every state, updateVersionStatus(id, s, log) on a known id leaves
\* the record a caller got from getVersion earlier as it is (status,
\* errorLog and timestamp included), and getVersion(id) afterwards gives a
\* record with the same id and file mapping and with status s and errorLog
\* log; on an unknown id it fails with VersionNotFound and changes nothing.
C18_ReplacesRecord ==
    \A versionId \in 1..MaxVersions, u \in StatusUpdates :
        LET r == updateVersionStatus(Vm, versionId, u[1], u[2]) IN
        IF versionId \in DOMAIN versions
        THEN /\ r.err = "none"
             /\ r.vm.held = held
             /\ getVersion(r.vm, versionId).id = versionId
             /\ getVersion(r.vm, versionId).files = versions[versionId].files
             /\ getVersion(r.vm, versionId).status = u[1]
             /\ getVersion(r.vm, versionId).errorLog = u[2]
        ELSE /\ r.err = "VersionNotFound"
             /\ r.vm = Vm

\* C18 witness: a caller holds the BUILDING record of a version that was
\* updated to VALID at a later time.
C18_Witness ==
    /\ held # NoVersion
    /\ held.status = "BUILDING"
    /\ versions[held.id].status = "VALID"
    /\ held.timestamp < versions[held.id].timestamp

\* The versions of a session whose status is now VALID.
ValidVersionsOf(sessionId) ==
    {v \in DOMAIN versions :
        /\ sessionId \in DOMAIN sessionVersions
        /\ \E i \in 1..Len(sessionVersions[sessionId]) :
               sessionVersions[sessionId][i] = v
        /\ versions[v].status = "VALID"}

\* C19: in every state, getLastValidVersion(sessionId) is the latest minted
\* of the session's versions whose status is now VALID (ids are minted in
\* increasing order), and undefined if the session has none; creating one
\* more version with status FAILED or BUILDING, for any session, leaves the
\* result as it is.
C19_LastValid ==
    \A sessionId \in VmSessionIds :
        LET valid == ValidVersionsOf(sessionId)
            found == getLastValidVersion(Vm, sessionId)
        IN  /\ IF valid = {} THEN found = NoVersion
               ELSE /\ found.id \in valid
                    /\ \A v \in valid : v <= found.id
                    /\ found = versions[found.id]
            /\ \A other \in VmSessionIds, status \in {"FAILED", "BUILDING"} :
                   getLastValidVersion(
                       createVersion(Vm, other, EmptyMap, status).vm,
                       sessionId) = found

\* C19 witness: a session has two versions, the first VALID and the second
\* FAILED, and getLastValidVersion gives the first.
C19_Witness ==
    \E sessionId \in VmSessionIds :
        /\ sessionId \in DOMAIN sessionVersions
        /\ Len(sessionVersions[sessionId]) = 2
        /\ versions[sessionVersions[sessionId][1]].status = "VALID"
        /\ versions[sessionVersions[sessionId][2]].status = "FAILED"
        /\ getLastValidVersion(Vm, sessionId).id = sessionVersions[sessionId][1]

\* The ids of the records getSessionVersions returns, in the order returned.
SessionVersionIds(sessionId) ==
    LET listed == getSessionVersions(Vm, sessionId) IN
    [i \in 1..Len(listed) |-> listed[i].id]

\* C20: in every state, getSessionVersions(sessionId) lists the session's
\* versions in the order in which createVersion minted them.
C20_CreationOrder ==
    \A sessionId \in VmSessionIds :
        SessionVersionIds(sessionId) =
            IF sessionId \in DOMAIN sessionVersions
            THEN sessionVersions[sessionId] ELSE <<>>

\* The positions at which an id stands in a list of ids.
IndexesOf(ids, id) == {i \in 1..Len(ids) : ids[i] = id}

\* C21: in every state and for every daysToKeep, garbageCollect deletes
\* exactly the versions whose timestamp is before now less daysToKeep and
\* keeps the others as they are, returns the number deleted, and leaves
\* every session with the ids of its remaining versions, each once and in
\* the order they had, and no session with an empty list.
C21_GarbageCollect ==
    \A daysToKeep \in DaysToKeep :
        LET g == garbageCollect(Vm, daysToKeep)
            old == {v \in DOMAIN versions :
                       versions[v].timestamp < now - daysToKeep}
            kept == (DOMAIN versions) \ old
        IN  /\ DOMAIN g.vm.versions = kept
            /\ \A v \in kept : g.vm.versions[v] = versions[v]
            /\ g.count = Cardinality(old)
            /\ DOMAIN g.vm.sessionVersions =
                   {s \in DOMAIN sessionVersions :
                       \E i \in 1..Len(sessionVersions[s]) :
                           sessionVersions[s][i] \in kept}
            /\ \A s \in DOMAIN g.vm.sessionVersions :
                   LET before == sessionVersions[s]
                       after  == g.vm.sessionVersions[s]
                   IN  /\ after # <<>>
                       /\ \A id \in kept :
                              Cardinality(IndexesOf(after, id)) =
                                  Cardinality(IndexesOf(before, id))
                       /\ \A i \in 1..Len(after) : after[i] \in kept
                       /\ \A i, j \in 1..Len(after) :
                              i < j =>
                                  \E a \in IndexesOf(before, after[i]),
                                     b \in IndexesOf(before, after[j]) : a < b

\* C21 witness: the first version, of session 1, was collected and the
\* session's list went with it; the second, of session 2, was kept.
C21_Witness ==
    /\ nextVersionId = 2
    /\ DOMAIN versions = {2}
    /\ DOMAIN sessionVersions = {2}
    /\ sessionVersions[2] = <<2>>

\* C23: in every state, getSession on a stored session whose expiresAt has
\* passed returns nothing and removes that session and its lock entry, and
\* nothing else; getSession on any other id changes nothing and returns the
\* session if it is stored; cleanupExpiredSessions removes exactly the
\* stored sessions whose expiresAt has passed, with their lock entries,
\* and returns their number.
C23_ExpiryEviction ==
    /\ \A id \in 1..nextSessionId :
           LET g == getSession(Manager, id) IN
           IF id \in DOMAIN sessions /\ sessions[id].expired
           THEN /\ ~g.found
                /\ g.sm.sessions = MapDelete(sessions, id)
                /\ g.sm.locks = MapDelete(sessionLocks, id)
           ELSE /\ g.found = (id \in DOMAIN sessions)
                /\ g.sm = Manager
    /\ LET c == cleanupExpiredSessions(Manager)
           live == {id \in DOMAIN sessions : ~sessions[id].expired}
       IN  /\ DOMAIN c.sm.sessions = live
           /\ \A id \in live : c.sm.sessions[id] = sessions[id]
           /\ \A id \in live :
                  id \in DOMAIN sessionLocks =>
                      /\ id \in DOMAIN c.sm.locks
                      /\ c.sm.locks[id] = sessionLocks[id]
           /\ \A id \in (DOMAIN sessions) \ live : id \notin DOMAIN c.sm.locks
           /\ c.deleted = Cardinality((DOMAIN sessions) \ live)

\* C23 witness: the first session, expired while locked, has been evicted
\* with its lock entry; the second, not expired, is stored.
C23_Witness ==
    /\ nextSessionId = 2
    /\ DOMAIN sessions = {2}
    /\ ~sessions[2].expired
    /\ DOMAIN sessionLocks = {2}
    /\ 1 \notin DOMAIN lockTrail

\* C24: in every state, transitionState on an id that is not stored, or whose
\* session's expiresAt has passed, fails with SessionNotFound and leaves all
\* sessions as they are.
C24_ExpiredNotFound ==
    \A id \in 1..nextSessionId, newState \in SessionState :
        (id \notin DOMAIN sessions \/ sessions[id].expired) =>
            /\ transitionState(sessions, id, newState).err = "SessionNotFound"
            /\ transitionState(sessions, id, newState).sessions = sessions

\* C22: whenever a Version has been serialized and the result deserialized,
\* the Version obtained has the id, status, errorLog and timestamp of the
\* original and exactly its path/content pairs.
C22_RoundTrip ==
    wire.pc = "deserialized" =>
        /\ wire.deserialized.id = wire.version.id
        /\ wire.deserialized.status = wire.version.status
        /\ wire.deserialized.errorLog = wire.version.errorLog
        /\ wire.deserialized.timestamp = wire.version.timestamp
        /\ DOMAIN wire.deserialized.files = DOMAIN wire.version.files
        /\ \A path \in DOMAIN wire.version.files :
               wire.deserialized.files[path] = wire.version.files[path]

\* C22 witness: a FAILED Version with an errorLog, a three-digit time value
\* and two files, one of them empty, has made the round trip.
C22_Witness ==
    /\ wire.pc = "deserialized"
    /\ wire.version.status = "FAILED"
    /\ wire.version.errorLog = "log"
    /\ wire.version.timestamp = 120
    /\ DOMAIN wire.version.files = {PathA, PathB}
    /\ wire.version.files[PathA] = ContentEmpty
    /\ wire.deserialized.files[PathB] = ContentX

\* C25: whenever every save() call made has completed, list(sessionId)
\* holds each version saved for the session exactly once.
C25_ListComplete ==
    (\A versionId \in DOMAIN saves : saves[versionId].pc = "done") =>
        \A versionId \in DOMAIN saves :
            Cardinality(IndexesOf(
                LocalStorageAdapter_list(disk, saves[versionId].sessionId),
                versionId)) = 1

\* C26: in every state, the history stored for a session holds at most 5
\* messages and is the last min(n, 5) of the n messages added for that
\* session, in the order they were added; a session no message was added
\* for has no history.
C26_HistoryWindow ==
    /\ DOMAIN conversationHistory = DOMAIN said
    /\ \A sessionId \in DOMAIN said :
           LET n == Len(said[sessionId])
               history == conversationHistory[sessionId]
           IN  /\ Len(history) <= 5
               /\ Len(history) = IF n < 5 THEN n ELSE 5
               /\ \A i \in 1..Len(history) :
                      history[i] = said[sessionId][n - Len(history) + i]

\* C26 witness: six messages were added for one session, whose history
\* starts with the second of them, and one for another session, whose
\* history holds it.
C26_Witness ==
    \E sessionId, other \in DOMAIN said :
        /\ Len(said[sessionId]) = 6
        /\ conversationHistory[sessionId][1] = said[sessionId][2]
        /\ Len(said[other]) = 1
        /\ conversationHistory[other] = said[other]

\* C27: in the context buildContext built, existingFiles holds each path of
\* the version once and no other, and every path that appears in the
\* recentChanges supplied stands before every path that does not.
C27_ChangedFirst ==
    context.pc = "built" =>
        LET supplied == {context.recentChanges[i].path :
                            i \in 1..Len(context.recentChanges)}
            result == context.built.existingFiles
        IN  /\ Len(result) = Len(context.existingFiles)
            /\ \A f \in CtxPaths :
                   Cardinality(IndexesOf(result, f)) =
                       Cardinality(IndexesOf(context.existingFiles, f))
            /\ \A i, j \in 1..Len(result) :
                   (result[i] \in supplied /\ result[j] \notin supplied) => i < j

\* What C28 says of a state of a generateContent call with retries = n.
GeminiBounded ==
    gemini.pc # "none" =>
        /\ gemini.calls <= gemini.retries
        /\ gemini.pc = "calling" =>
               /\ Len(gemini.sleeps) = gemini.calls - 1
               /\ ~isNonRetryableError(gemini.lastError)
        /\ gemini.pc = "sleeping" =>
               /\ Len(gemini.sleeps) = gemini.calls
               /\ gemini.calls < gemini.retries
               /\ ~isNonRetryableError(gemini.lastError)
        /\ gemini.pc = "returned" =>
               /\ Len(gemini.sleeps) = gemini.calls - 1
               /\ gemini.lastError.call = gemini.calls - 1
        /\ gemini.pc = "thrown" =>
               /\ Len(gemini.sleeps) = gemini.calls - 1
               /\ gemini.error = gemini.lastError
               /\ gemini.error.call = gemini.calls
               /\ isNonRetryableError(gemini.error) \/ gemini.calls = gemini.retries

\* C28: a generateContent call with retries = n >= 1 makes at most n model
\* calls; it returns at the first response; an error whose message has
\* API_KEY, PERMISSION_DENIED or INVALID_ARGUMENT is thrown at once; after n
\* other failures the last error is thrown; there is one backoff between
\* two model calls and none after the last; once the call has returned or
\* thrown nothing more happens; and the call does return or throw.
C28_BoundedRetries ==
    /\ []GeminiBounded
    /\ [][gemini.pc \in {"returned", "thrown"} => gemini' = gemini]_vars
    /\ <>(gemini.pc \in {"returned", "thrown"})

\* C28 witness: with retries = 3, the third model call failed like the two
\* before it and its error was thrown, after two backoffs of 1 s and 2 s.
C28_Witness ==
    /\ gemini.pc = "thrown"
    /\ gemini.retries = 3
    /\ gemini.calls = 3
    /\ gemini.error.call = 3
    /\ ~isNonRetryableError(gemini.error)
    /\ gemini.sleeps = <<1000, 2000>>

\* The states transitionState(id, .) accepts for a session in state s.
AcceptedFrom(id, s) ==
    {t \in SessionState :
        transitionState([sessions EXCEPT ![id].state = s], id, t).err = "none"}

\* The states a session can be brought to from the states of frontier by
\* accepted transitionState calls, beside those already reached.
RECURSIVE ReachedFrom(_, _, _)
ReachedFrom(id, reached, frontier) ==
    LET next == UNION {AcceptedFrom(id, s) : s \in frontier} \ reached IN
    IF next = {} THEN reached
    ELSE ReachedFrom(id, reached \cup next, next)

\* The states a session in state s can be brought to by one or more accepted
\* transitionState calls.
ReachableFrom(id, s) == ReachedFrom(id, {}, {s})

\* C29: every state has an allowed transition in the table, and in every
\* state of the manager every stored session, whatever its state, has a
\* transitionState call that is accepted and can be brought both to READY
\* and to FAILED by a sequence of accepted calls; so FAILED and READY are
\* not final.
C29_NoDeadEnd ==
    /\ \A s \in SessionState : VALID_TRANSITIONS(s) # {}
    /\ \A id \in DOMAIN sessions :
           /\ AcceptedFrom(id, sessions[id].state) # {}
           /\ {"READY", "FAILED"} \subseteq ReachableFrom(id, sessions[id].state)

\* C29 witness: one session is FAILED and another READY, and each can be
\* brought to the other's state.
C29_Witness ==
    \E id, other \in DOMAIN sessions :
        /\ sessions[id].state = "FAILED"
        /\ sessions[other].state = "READY"
        /\ "READY" \in ReachableFrom(id, "FAILED")
        /\ "FAILED" \in ReachableFrom(other, "READY")

\* The store as clear() leaves it.
Cleared ==
    [files |-> clear(Vfs).files, snapshots |-> clear(Vfs).snapshots,
     nextSnapshotId |-> nextSnapshotId]

\* C30: in every state, right after clear() list() is empty, and restore
\* and diff with ids issued before the clear fail with SnapshotNotFound, the
\* failed restore leaving the working mapping empty; and as long as a
\* snapshot id is not retained, also after later writes, restore with it
\* fails and leaves the working mapping as it is.
C30_ClearForgets ==
    /\ list(Cleared.files) = {}
    /\ \A versionId \in 1..nextSnapshotId :
           /\ restore(Cleared, versionId).err = "SnapshotNotFound"
           /\ restore(Cleared, versionId).vfs.files = EmptyMap
           /\ \A other \in 1..nextSnapshotId :
                  diff(Cleared, versionId, other).err = "SnapshotNotFound"
    /\ \A versionId \in (1..nextSnapshotId) \ DOMAIN snapshots :
           /\ restore(Vfs, versionId).err = "SnapshotNotFound"
           /\ restore(Vfs, versionId).vfs.files = files

\* C30 witness: two snapshots were taken and clear() has just been called.
C30_Witness ==
    /\ nextSnapshotId = 2
    /\ snapshots = EmptyMap
    /\ files = EmptyMap
    /\ taken = EmptyMap


\* What the SessionManager holds about session id: whether it is stored,
\* its record, and its lock entry.
Held(sm, id) ==
    [stored |-> id \in DOMAIN sm.sessions,
     session |-> IF id \in DOMAIN sm.sessions THEN sm.sessions[id] ELSE NewSession,
     hasLock |-> id \in DOMAIN sm.locks,
     locked |-> isLocked(sm.locks, id)]

\* The SessionManager after each method that takes a session id is called
\* on id a.
AfterOps(sm, a) ==
    {[sessions |-> transitionState(sm.sessions, a, s).sessions, locks |-> sm.locks] :
         s \in SessionState}
    \cup {[sessions |-> setCurrentVersion(sm.sessions, a, v).sessions, locks |-> sm.locks] :
         v \in SomeVersionIds}
    \cup {[sessions |-> sm.sessions, locks |-> lockSession(sm.locks, a).locks],
          [sessions |-> sm.sessions, locks |-> unlockSession(sm.locks, a)],
          deleteSession(sm, a),
          getSession(sm, a).sm}

C32_PreviewServesLastValid ==
    \A id \in DOMAIN sessions :
        LET reply == PreviewLatest(Manager, id) IN
        ~sessions[id].expired =>
            /\ sessions[id].lastValidVersion # NULL =>
                   /\ reply.status = 302
                   /\ reply.location =
                          [sessionId |-> id,
                           versionId |-> sessions[id].lastValidVersion]
            /\ (sessions[id].lastValidVersion = NULL /\ sessions[id].state # "READY") =>
                   /\ reply.status = 202
                   /\ reply.location = NoLocation

\* C32 witness: one session FAILED with lastValidVersion 1 and a later
\* currentVersion 2, redirected to version 1; the other in GENERATING with
\* a currentVersion and no lastValidVersion, answered 202.
C32_Witness ==
    /\ DOMAIN sessions = {1, 2}
    /\ sessions[1].state = "FAILED"
    /\ sessions[1].lastValidVersion = 1 /\ sessions[1].currentVersion = 2
    /\ PreviewLatest(Manager, 1).status = 302
    /\ PreviewLatest(Manager, 1).location.versionId = 1
    /\ sessions[2].state = "GENERATING"
    /\ sessions[2].lastValidVersion = NULL /\ sessions[2].currentVersion = 1
    /\ PreviewLatest(Manager, 2).status = 202


\* C33: a fixErrors run started on a session in READY or FAILED whose
\* currentVersion is in the registry, whose aiGateway.fix call resolved with
\* files the VFS accepts, and which no other run of the session overlapped,
\* resolves with the id of a new version; the session is then READY with
\* currentVersion = lastValidVersion = that id, and the version is VALID.
C33_FixCompletes ==
    \A r \in 1..Len(runs) :
        ( /\ runs[r].kind = "fix"
          /\ runs[r].pc = "done"
          /\ runs[r].generated
          /\ runs[r].stateBefore \in {"READY", "FAILED"}
          /\ runs[r].currentBefore # NULL
          /\ WriteAll(EmptyMap, runs[r].fileSet).err = "none"
          /\ r = Len(runs)
          /\ \A q \in 1..(r - 1) : runs[q].pc = "done"
          /\ runs[r].sid \in DOMAIN sessions )
        => /\ runs[r].result = "resolved"
           /\ runs[r].version \in DOMAIN versions
           /\ runs[r].version # runs[r].currentBefore
           /\ versions[runs[r].version].status = "VALID"
           /\ sessions[runs[r].sid].state = "READY"
           /\ sessions[runs[r].sid].currentVersion = runs[r].version
           /\ sessions[runs[r].sid].lastValidVersion = runs[r].version


\* The runs of session id that passed the session lookup of execute or
\* fixErrors.
EnteredRuns(id) ==
    {r \in 1..Len(runs) : runs[r].sid = id /\ runs[r].entered}

C35_LastGoodAgree ==
    \A id \in DOMAIN sessions :
        InFlight(id) = {} =>
            sessions[id].lastValidVersion = getLastValidVersion(Vm, id).id


\* C36: a lock entry exists only for a session id that is stored in the
\* session map.
C36_LocksOnlyForStored ==
    DOMAIN sessionLocks \subseteq DOMAIN sessions


\* C37: a prompt request answered 409 leaves the session and its lock entry
\* as they were, and the lock of a stored session stays set for as long as
\* the run of the request that took it is in progress.
C37_BusyKeepsLock ==
    /\ \A id \in 1..nextSessionId :
           PromptReply(Manager, id, TRUE) = "409" =>
               /\ PromptRejected(Manager, id, TRUE) = Manager
               /\ isLocked(PromptRejected(Manager, id, TRUE).locks, id)
    /\ \A r \in 1..Len(runs) :
           ( /\ runs[r].locked
             /\ runs[r].result = "pending"
             /\ runs[r].sid \in DOMAIN sessions )
           => /\ isLocked(sessionLocks, runs[r].sid)
              /\ ~sessions[runs[r].sid].expired =>
                     PromptReply(Manager, runs[r].sid, TRUE) = "409"

\* C37 witness: the run of an accepted request waits for the generated
\* files, its session locked; a further prompt for the session is answered
\* 409 and leaves the lock set, while the other session admits a prompt.
C37_Witness ==
    \E r \in 1..Len(runs) :
        /\ runs[r].locked /\ runs[r].pc = "generate"
        /\ runs[r].sid \in DOMAIN sessions
        /\ PromptReply(Manager, runs[r].sid, TRUE) = "409"
        /\ isLocked(PromptRejected(Manager, runs[r].sid, TRUE).locks, runs[r].sid)
        /\ \E other \in DOMAIN sessions :
               /\ other # runs[r].sid
               /\ PromptReply(Manager, other, TRUE) = "admitted"


ListedAt(v) ==
    {p \in UNION {{<<s, i>> : i \in 1..Len(sessionVersions[s])} :
                      s \in DOMAIN sessionVersions} :
        sessionVersions[p[1]][p[2]] = v}

\* C39: every id in a session's version list is the id of a stored version,
\* every stored version is listed at exactly one place of exactly one list,
\* and every list is in the order in which its versions were created.
C39_IndexConsistent ==
    /\ \A s \in DOMAIN sessionVersions :
           \A i \in 1..Len(sessionVersions[s]) :
               /\ sessionVersions[s][i] \in DOMAIN versions
               /\ versions[sessionVersions[s][i]].id = sessionVersions[s][i]
    /\ \A v \in DOMAIN versions : Cardinality(ListedAt(v)) = 1
    /\ \A s \in DOMAIN sessionVersions :
           \A i, j \in 1..Len(sessionVersions[s]) :
               i < j => sessionVersions[s][i] < sessionVersions[s][j]

\* C39 witness: of the two versions of session 1 the collection removed the
\* older one, after its status had been updated, and the list holds the
\* newer one alone.
C39_Witness ==
    /\ nextVersionId = 2
    /\ DOMAIN versions = {2}
    /\ DOMAIN sessionVersions = {1}
    /\ sessionVersions[1] = <<2>>
    /\ versions[2].status = "VALID"
    /\ now = MaxClock

====
